---- MODULE Spec2Model ----
(***************************************************************************)
(* Terminal chat client (voxelwerke/party): the rendering core of chat.ts  *)
(* (text wrapper, bubble formatter, session state with its typing timer)   *)
(* and the orchestration callback that drives it.                          *)
(*                                                                         *)
(* A string is a sequence of one-character strings, so that length,        *)
(* slicing and splitting are computed as the code computes them.           *)
(***************************************************************************)
EXTENDS Integers, Sequences, FiniteSets, TLC

VARIABLES
  \* ---- session state of chat.ts (const state, the event loop's timers) ----
  messages,     \* state.messages
  typing,       \* state.typing
  typingAnim,   \* state.typingAnim: NoTimer (null) or a timer handle
  typingFrame,  \* state.typingFrame
  timers,       \* interval timers live in the event loop
  nextTimer,    \* next handle setInterval returns
  nextId,       \* next value of crypto.randomUUID()
  clock,        \* Date.now()
  shown,        \* what the last render() read: chatBox shows Content
  scrollPerc,   \* what chatBox.setScrollPerc was last given
  calls,        \* history variable: every addMessage call, in call order
  trace,        \* history variable: what the current event did to the state
                \* and to the display surface, in order
  lastOp,       \* history variable: the exported operations the last step called
  \* ---- the chat client: one onMessage handler per submitted line ----
  running,      \* FALSE once process.exit was called
  submitted,    \* number of lines passed to onMessage so far
  hpc,          \* handler -> where it is suspended
  hReply,       \* handler -> the reply it holds
  history,      \* the model history of the client
  passed,       \* history variable: every invocation of onMessage
  hError,       \* history variable: handler -> the rejection it met
  event,        \* history variable: the event the last step handled
  client,       \* the onMessage callback startChat was given: "plain" awaits
                \* the model for every line, "gated" asks the classifier first
  \* ---- the classifier-gated client ----
  hLines,       \* handler -> the lines of its reply still to be shown
  hAct,         \* history variable: handler -> what classifyUtterance returned
  hDid,         \* history variable: handler -> the calls it has made
  \* ---- a call of a pure function: its inputs and its result ----
  fpc,          \* "idle" | "call" | "done"
  inOp,         \* "wrapText" | "bubbleLines"
  inText,       \* text argument
  inNum,        \* width (wrapText) or maxWidth (bubbleLines)
  inSender,     \* sender argument of bubbleLines
  outLines,     \* returned lines
  outWidth,     \* returned width (bubbleLines)
  outCalls,     \* history variable: the bubbleLines calls of render
  \* ---- wrapText(inText, inNum) run statement by statement ----
  wpc,          \* "idle" | "start" | "para" | "word" | "chunk" | "done" | "exhausted"
  wParas,       \* paras
  wP,           \* index of p in paras (from 1)
  wWords,       \* words
  wW,           \* index of w in words (from 1)
  wLine,        \* line
  wLines,       \* lines
  wI,           \* i of the chunk loop
  \* ---- the terminal agent (agent.ts): prompt() and agentTurn(history) ----
  variant,      \* which agentTurn runs: "tools" (tool loop only) or
                \* "confidence" (a tool-free first call, then the tool loop)
  apc,          \* where the agent is suspended
  agentHistory, \* const history: Message[] of the agent
  loopI,        \* i of the tool loop
  pendingCalls, \* what is left of msg.tool_calls in the for-of loop
  nextCall,     \* next tool-call id the model hands out
  turns,        \* number of lines answered or being answered
  modelCalls,   \* history variable: groqChat calls of the current agentTurn
  responses,    \* history variable: the tool loop's responses of the current
                \* agentTurn, in order
  returned,     \* history variable: how the last agentTurn ended
  sent          \* history variable: the history the last groqChat call was given

stateVars == <<messages, typing, typingAnim, typingFrame, timers, nextTimer,
               nextId, clock, shown, scrollPerc, calls, trace>>
gatedVars == <<client, hLines, hAct, hDid>>
clientVars == <<running, submitted, hpc, hReply, history, passed, hError, event,
                gatedVars>>
sessVars == <<stateVars, lastOp, clientVars>>
fnVars == <<fpc, inOp, inText, inNum, inSender, outLines, outWidth, outCalls>>
stepVars == <<wpc, wParas, wP, wWords, wW, wLine, wLines, wI>>
agentVars == <<variant, apc, agentHistory, loopI, pendingCalls, nextCall, turns,
               modelCalls, responses, returned, sent>>
vars == <<sessVars, fnVars, stepVars, agentVars>>

----------------------------------------------------------------------------
(* Bounds of the model *)

\* longest text, in pieces, handed to a pure function
MaxPieces == 3
\* largest wrap width tried
MaxWidth == 12
\* smallest width wrapText is called with: the floor of bubbleLines' clamp
MinWidth == 10
\* largest maxWidth handed to bubbleLines
MaxBubbleWidth == 16
\* lines submitted to the input box in a run
MaxSubmits == 2
\* ticks of the typing timer followed while the indicator stays on
MaxFrame == 5
\* latest instant Date.now() returns
MaxClock == 1
\* largest width of a statement-by-statement run of wrapText
MaxStepWidth == 2
\* the length an array can reach before push fails for lack of memory
MaxArrayLength == 120
\* the viewports rendered: every width up to MaxNarrow, the default width
\* and WideViewport
MaxNarrow == 30
WideViewport == 90
\* most messages of a rendered session state
MaxMessages == 2
\* latest minute of the clock at a render
MaxMinutes == 1

----------------------------------------------------------------------------
(* Strings *)

Senders == {"me", "them", "system"}

Whitespace == {" ", "\t", "\n"}

IsSpace(c) == c \in Whitespace

Min(a, b) == IF a <= b THEN a ELSE b
Max(a, b) == IF a >= b THEN a ELSE b

\* String.prototype.slice(start, end) on 0-based indices; a negative index
\* counts from the end, and an empty range gives "".
Slice(s, start, end) ==
  LET n == Len(s)
      from == IF start < 0 THEN Max(n + start, 0) ELSE Min(start, n)
      to == IF end < 0 THEN Max(n + end, 0) ELSE Min(end, n)
  IN IF from >= to THEN <<>> ELSE SubSeq(s, from + 1, to)

\* text.split("\n"): the pieces between newline characters (never empty).
RECURSIVE SplitParas(_)
SplitParas(s) ==
  IF \A k \in 1..Len(s) : s[k] # "\n"
  THEN <<s>>
  ELSE LET k == CHOOSE j \in 1..Len(s) :
                  s[j] = "\n" /\ \A h \in 1..(j - 1) : s[h] # "\n"
       IN <<SubSeq(s, 1, k - 1)>> \o SplitParas(SubSeq(s, k + 1, Len(s)))

\* p.split(/\s+/).filter(Boolean): the maximal runs of non-whitespace, in
\* order; a run starts where the character before is whitespace or missing
Words(p) ==
  LET starts == {k \in 1..Len(p) :
                   ~IsSpace(p[k]) /\ (k = 1 \/ IsSpace(p[k - 1]))}
      nth(n) == CHOOSE k \in starts : Cardinality({j \in starts : j <= k}) = n
      last(k) == CHOOSE e \in k..Len(p) :
                   /\ \A j \in k..e : ~IsSpace(p[j])
                   /\ (e = Len(p) \/ IsSpace(p[e + 1]))
  IN [n \in 1..Cardinality(starts) |-> SubSeq(p, nth(n), last(nth(n)))]

----------------------------------------------------------------------------
(* wrapText *)

\* next.length <= width
FitsLoose(next, width) == Len(next) <= width + 1
Fits(next, width) == Len(next) <= width

\* for (let i = 0; i < w.length; i += width) lines.push(w.slice(i, i + size))
RECURSIVE ChunksBy(_, _, _, _)
ChunksBy(w, i, width, size) ==
  IF i >= Len(w) THEN <<>>
  ELSE <<Slice(w, i, i + size)>> \o ChunksBy(w, i + width, width, size)

ChunksOffByOne(w, width) == ChunksBy(w, 0, width, width - 1)
Chunks(w, width) == ChunksBy(w, 0, width, width)

\* const next = line ? `${line} ${w}` : w
Joined(line, w) == IF line # <<>> THEN line \o <<" ">> \o w ELSE w

\* one iteration of `for (const w of words)`: the new line and lines
StepWord(line, lines, w, width) ==
  IF Fits(Joined(line, w), width)
     THEN [line |-> Joined(line, w), lines |-> lines]
     ELSE LET flushed == IF line # <<>> THEN Append(lines, line) ELSE lines
          IN IF Len(w) > width
             THEN [line |-> <<>>, lines |-> flushed \o Chunks(w, width)]
             ELSE [line |-> w, lines |-> flushed]

RECURSIVE WrapWords(_, _, _, _, _)
WrapWords(words, k, line, lines, width) ==
  IF k > Len(words) THEN [line |-> line, lines |-> lines]
  ELSE LET st == StepWord(line, lines, words[k], width)
       IN WrapWords(words, k + 1, st.line, st.lines, width)

\* p !== paras[paras.length - 1]: a comparison of the strings
NotLastPara(paras, k) == paras[k] # paras[Len(paras)]

\* one iteration of `for (const p of paras)`
WrapPara(paras, k, lines, width) ==
  LET st == WrapWords(Words(paras[k]), 1, <<>>, lines, width)
      withLine == IF st.line # <<>> THEN Append(st.lines, st.line) ELSE st.lines
  IN IF NotLastPara(paras, k) THEN Append(withLine, <<>>) ELSE withLine

RECURSIVE WrapParas(_, _, _, _)
WrapParas(paras, k, lines, width) ==
  IF k > Len(paras) THEN lines
  ELSE WrapParas(paras, k + 1, WrapPara(paras, k, lines, width), width)

wrapText(text, width) == WrapParas(SplitParas(text), 1, <<>>, width)

----------------------------------------------------------------------------
(* bubbleLines *)

\* the box-drawing characters of the borders, one display column each
BoxTL == "box-down-right"
BoxTR == "box-down-left"
BoxBL == "box-up-right"
BoxBR == "box-up-left"
BoxH == "box-horizontal"
BoxV == "box-vertical"

\* " ".repeat(n) and the like
Repeat(c, n) == [k \in 1..n |-> c]

RECURSIVE Flatten(_)
Flatten(ss) == IF ss = <<>> THEN <<>> ELSE Head(ss) \o Flatten(Tail(ss))

\* Math.max(lo, Math.min(hi, n))
clamp(n, lo, hi) == Max(lo, Min(hi, n))

\* s.replace(/\{\/?[^}]+\}/g, ""): every "{", at least one character other
\* than "}", "}" is removed, leftmost first
RECURSIVE StripFrom(_, _)
StripFrom(s, k) ==
  IF k > Len(s) THEN <<>>
  ELSE LET closes == {j \in (k + 1)..Len(s) : s[j] = "}"}
           j == CHOOSE c \in closes : \A d \in closes : c <= d
       IN IF s[k] = "{" /\ closes # {} /\ j > k + 1
          THEN StripFrom(s, j + 1)
          ELSE <<s[k]>> \o StripFrom(s, k + 1)

stripTags(s) == StripFrom(s, 1)

\* the decimal digit d as a character
Digit(d) == CASE d = 0 -> "0" [] d = 1 -> "1" [] d = 2 -> "2" [] d = 3 -> "3"
              [] d = 4 -> "4" [] d = 5 -> "5" [] d = 6 -> "6" [] d = 7 -> "7"
              [] d = 8 -> "8" [] OTHER -> "9"

\* toLocaleTimeString(undefined, {hour: "2-digit", minute: "2-digit"}), in
\* a 24-hour UTC locale; ts is in milliseconds
timeHHMM(ts) ==
  LET mins == (ts \div 60000) % 1440
      h == mins \div 60
      m == mins % 60
  IN <<Digit(h \div 10), Digit(h % 10), ":", Digit(m \div 10), Digit(m % 10)>>

innerPadX == 1

\* clamp(maxWidth - 2 - innerPadX * 2, 10, maxWidth)
MaxInnerFloor11(maxWidth) == clamp(maxWidth - 2 - innerPadX * 2, 11, maxWidth)
MaxInner(maxWidth) == clamp(maxWidth - 2 - innerPadX * 2, 10, maxWidth)

RECURSIVE MaxLen(_)
MaxLen(ls) == IF ls = <<>> THEN 0 ELSE Max(Len(stripTags(Head(ls))), MaxLen(Tail(ls)))

RECURSIVE MaxRawLen(_)
MaxRawLen(ls) == IF ls = <<>> THEN 0 ELSE Max(Len(Head(ls)), MaxRawLen(Tail(ls)))

\* Math.min(maxInner, Math.max(1, ...contentLines.map(l => stripTags(l).length)))
ContentWidthRaw(contentLines, maxInner) == Min(maxInner, Max(1, MaxRawLen(contentLines)))
ContentWidthNoFloor(contentLines, maxInner) == Min(maxInner, MaxLen(contentLines))
ContentWidth(contentLines, maxInner) == Min(maxInner, Max(1, MaxLen(contentLines)))

StyleOpen(sender) ==
  IF sender = "me" THEN <<"{", "c", "y", "a", "n", "-", "f", "g", "}">>
  ELSE IF sender = "them"
       THEN <<"{", "l", "i", "g", "h", "t", "-", "g", "r", "a", "y", "-", "f", "g", "}">>
       ELSE <<"{", "g", "r", "e", "e", "n", "-", "f", "g", "}">>

StyleClose == <<"{", "/", "}">>

bubbleLines(sender, text, ts, maxWidth) ==
  LET maxInner == MaxInner(maxWidth)
      contentLines == wrapText(text, maxInner)
      contentWidth == ContentWidth(contentLines, maxInner)
      w == contentWidth + innerPadX * 2
      top == <<BoxTL>> \o Repeat(BoxH, w) \o <<BoxTR>>
      bottom == <<BoxBL>> \o Repeat(BoxH, w) \o <<BoxBR>>
      middle == [k \in 1..Len(contentLines) |->
                  LET l == contentLines[k]
                      padRight == contentWidth - Len(stripTags(l))
                  IN <<BoxV>> \o Repeat(" ", innerPadX) \o l \o Repeat(" ", padRight)
                       \o Repeat(" ", innerPadX) \o <<BoxV>>]
      tsStr == <<"{", "g", "r", "a", "y", "-", "f", "g", "}">> \o timeHHMM(ts)
                 \o <<"{", "/", "g", "r", "a", "y", "-", "f", "g", "}">>
  IN [lines |-> <<StyleOpen(sender) \o top \o StyleClose>>
                  \o [k \in 1..Len(middle) |-> StyleOpen(sender) \o middle[k] \o StyleClose]
                  \o <<StyleOpen(sender) \o bottom \o StyleClose>>
                  \o <<<<" ">> \o tsStr>>,
      width |-> w + 2,
      \* not returned: every count handed to String.prototype.repeat, which
      \* throws a RangeError on a negative one
      repeats |-> {w, innerPadX}
                    \cup {contentWidth - Len(stripTags(contentLines[k])) :
                            k \in 1..Len(contentLines)}]


----------------------------------------------------------------------------
(* The inputs of the pure functions *)

WordA == <<"a">>
WordBC == <<"b", "c">>
Word11 == <<"d", "e", "f", "g", "h", "i", "j", "k", "l", "m", "n">>
Word25 == <<"a", "b", "c", "d", "e", "f", "g", "h", "i", "j", "k", "l", "m",
            "n", "o", "p", "q", "r", "s", "t", "u", "v", "w", "x", "y">>

\* a style tag inside the text, and a brace that opens none
TagB == <<"{", "b", "}">>
Brace == <<"{">>

Pieces ==
  {WordA, WordBC, Word11, Word25, TagB, Brace, <<" ">>, <<"\t">>, <<"\n">>}

\* every concatenation of at most MaxPieces pieces
Texts == UNION {{Flatten(f) : f \in [1..n -> Pieces]} : n \in 0..MaxPieces}

----------------------------------------------------------------------------
(* The session state *)

NoTimer == 0

\* a handler that met no rejection
NoError == <<"none">>

\* a handler that classifyUtterance has not answered
NoAct == [tag |-> "none", shouldReply |-> FALSE]

\* const system: Message = { role: "system", content: ... }
system == [role |-> "system", content |-> <<"p", "r", "o", "m", "p", "t">>]

\* the width render uses: screen.width, 80 when it is not a number
ViewportWidth == 80

\* out.join("\n")
RECURSIVE JoinLines(_)
JoinLines(ls) ==
  IF ls = <<>> THEN <<>>
  ELSE IF Len(ls) = 1 THEN ls[1]
  ELSE ls[1] \o <<"\n">> \o JoinLines(Tail(ls))

\* " ".repeat(pad) + line, for every line of a bubble
Padded(b, pad) == [k \in 1..Len(b.lines) |-> Repeat(" ", pad) \o b.lines[k]]

\* ["   ", ".  ", ".. ", "..."][state.typingFrame % 4]
DotsOneAhead(frame) ==
  LET f == (frame + 1) % 4
  IN [k \in 1..3 |-> IF k <= f THEN "." ELSE " "]
Dots(frame) ==
  LET f == frame % 4
  IN [k \in 1..3 |-> IF k <= f THEN "." ELSE " "]

\* the largest power of two that is <= n, for n >= 1
RECURSIVE Pow2Below(_)
Pow2Below(n) == IF n < 2 THEN 1 ELSE 2 * Pow2Below(n \div 2)

\* Math.floor(W * 0.7) in double precision. The constant 0.7 is the double
\* 0.7 - 0.4 * 2^-53, so the exact product is 7W/10 - 0.4 * W * 2^-53. When
\* W is not a multiple of 10 the fraction of 7W/10 is at least 0.1 and the
\* floor is that of 7W/10. When W = 10k the product lies just below the
\* integer 7k, where doubles are 2^(e-52) apart for 2^e <= 7k < 2^(e+1):
\* it rounds to 7k unless 4k * 2^-53 exceeds half that distance, that is
\* unless 4k > 2^e, and then the floor is 7k - 1 (90 * 0.7 is
\* 62.99999999999999).
maxBubble(W) ==
  IF W % 10 = 0 /\ W > 0 /\ 4 * (W \div 10) > Pow2Below(7 * (W \div 10))
  THEN 7 * (W \div 10) - 1
  ELSE (W * 7) \div 10

\* m.sender === "me" ? Math.max(0, W - b.width - 2) : 1
PadUnclamped(sender, W, bwidth) == IF sender = "me" THEN W - bwidth - 2 ELSE 1
Pad(sender, W, bwidth) == IF sender = "me" THEN Max(0, W - bwidth - 2) ELSE 1

\* Math.min(18, maxBubble)
TypingMax(mb) == Min(18, mb)

\* what render makes a bubble of, in order: every message of
\* state.messages and, if (state.typing), the typing indicator last
RenderItemsIndicatorFirst(st) ==
  (IF st.typing
   THEN <<[sender |-> "them", text |-> Dots(st.typingFrame), ts |-> st.clock,
           indicator |-> TRUE]>>
   ELSE <<>>)
  \o [k \in 1..Len(st.messages) |->
        [sender |-> st.messages[k].sender, text |-> st.messages[k].text,
         ts |-> st.messages[k].ts, indicator |-> FALSE]]
RenderItems(st) ==
  [k \in 1..Len(st.messages) |->
     [sender |-> st.messages[k].sender, text |-> st.messages[k].text,
      ts |-> st.messages[k].ts, indicator |-> FALSE]]
  \o (IF st.typing
      THEN <<[sender |-> "them", text |-> Dots(st.typingFrame), ts |-> st.clock,
              indicator |-> TRUE]>>
      ELSE <<>>)

\* one bubble of render: the bubbleLines call, the pad, and the lines pushed
\* to out: the padded lines of the bubble and ""
BubbleCall(item, W) ==
  LET maxWidth == IF item.indicator THEN TypingMax(maxBubble(W)) ELSE maxBubble(W)
      b == bubbleLines(item.sender, item.text, item.ts, maxWidth)
      pad == IF item.indicator THEN 1 ELSE Pad(item.sender, W, b.width)
  IN [sender |-> item.sender, text |-> item.text, ts |-> item.ts,
      indicator |-> item.indicator, maxWidth |-> maxWidth,
      inner |-> MaxInner(maxWidth), width |-> b.width, pad |-> pad,
      repeats |-> b.repeats \cup {pad},
      out |-> Padded(b, pad) \o <<<<>>>>]

\* the bubbles of render, in order
RenderCalls(st, W) ==
  LET items == RenderItems(st)
  IN [k \in 1..Len(items) |-> BubbleCall(items[k], W)]

\* the lines render joins: out
RenderLines(st, W) ==
  LET cs == RenderCalls(st, W)
  IN Flatten([k \in 1..Len(cs) |-> cs[k].out])

\* render(): chatBox.setContent(out.join("\n")); chatBox.setScrollPerc(100).
\* The content is a function of what render read, which is what is kept.
SurfaceCallsScrollLast == <<"setContent", "screen.render", "setScrollPerc">>
SurfaceCalls == <<"setContent", "setScrollPerc", "screen.render">>

render(st) ==
  [st EXCEPT !.shown = [messages |-> st.messages, typing |-> st.typing,
                        typingFrame |-> st.typingFrame, clock |-> st.clock],
             !.scrollPerc = 100,
             !.trace = st.trace \o SurfaceCalls]

\* the content of chatBox
Content == JoinLines(RenderLines(shown, ViewportWidth))

\* state.messages.push(m)
PushFront(msgs, m) == <<m>> \o msgs
Push(msgs, m) == Append(msgs, m)

\* addMessage(sender, text)
addMessage(st, sender, text) ==
  render([st EXCEPT
            !.messages = Push(st.messages,
                              [id |-> st.nextId, sender |-> sender,
                               text |-> text, ts |-> st.clock]),
            !.nextId = st.nextId + 1,
            !.calls = Append(st.calls, [sender |-> sender, text |-> text]),
            !.trace = Append(st.trace, "addMessage")])

\* if (!state.typingAnim)
NeedsTimerAlways(anim) == TRUE
NeedsTimer(anim) == anim = NoTimer

\* if (state.typingAnim) clearInterval(state.typingAnim)
TimersAfterLeak(tms, anim) == tms
TimersAfterClear(tms, anim) == IF anim # NoTimer THEN tms \ {anim} ELSE tms

\* state.typingFrame = 0
FrameAfterStopKept(frame) == frame
FrameAfterStop(frame) == 0

\* setTyping(on)
setTyping(st, on) ==
  render(
    IF on
    THEN IF NeedsTimer(st.typingAnim)
         THEN [st EXCEPT !.typing = TRUE,
                         !.typingAnim = st.nextTimer,
                         !.timers = st.timers \cup {st.nextTimer},
                         !.nextTimer = st.nextTimer + 1,
                         !.trace = Append(st.trace, "setTyping")]
         ELSE [st EXCEPT !.typing = TRUE,
                         !.trace = Append(st.trace, "setTyping")]
    ELSE [st EXCEPT !.typing = FALSE,
                    !.timers = TimersAfterClear(st.timers, st.typingAnim),
                    !.typingAnim = NoTimer,
                    !.typingFrame = FrameAfterStop(st.typingFrame),
                    !.trace = Append(st.trace, "setTyping")])

\* state.typingFrame++
FrameAfterTickTwice(frame) == frame + 2
FrameAfterTick(frame) == frame + 1

\* the callback of setInterval: state.typingFrame++; render()
tick(st) ==
  render([st EXCEPT !.typingFrame = FrameAfterTick(st.typingFrame),
                    !.trace = Append(st.trace, "tick")])

\* the session state as one value, and its assignment
Cur ==
  [messages |-> messages, typing |-> typing, typingAnim |-> typingAnim,
   typingFrame |-> typingFrame, timers |-> timers, nextTimer |-> nextTimer,
   nextId |-> nextId, clock |-> clock, shown |-> shown,
   scrollPerc |-> scrollPerc, calls |-> calls, trace |-> trace]

Becomes(st) ==
  /\ messages' = st.messages
  /\ typing' = st.typing
  /\ typingAnim' = st.typingAnim
  /\ typingFrame' = st.typingFrame
  /\ timers' = st.timers
  /\ nextTimer' = st.nextTimer
  /\ nextId' = st.nextId
  /\ clock' = st.clock
  /\ shown' = st.shown
  /\ scrollPerc' = st.scrollPerc
  /\ calls' = st.calls
  /\ trace' = st.trace

\* the session state when an event starts, at a later reading of the clock
At(now) == [Cur EXCEPT !.clock = now, !.trace = <<>>]

Nows == clock..Min(clock + 1, MaxClock)

Handlers == 1..MaxSubmits

SessInit ==
  /\ messages = <<>>
  /\ typing = FALSE
  /\ typingAnim = NoTimer
  /\ typingFrame = 0
  /\ timers = {}
  /\ nextTimer = 1
  /\ nextId = 1
  /\ clock = 0
  /\ shown = [messages |-> <<>>, typing |-> FALSE, typingFrame |-> 0, clock |-> 0]
  /\ scrollPerc = 100
  /\ calls = <<>>
  /\ trace = SurfaceCalls
  /\ lastOp = <<>>
  /\ running = TRUE
  /\ submitted = 0
  /\ hpc = [h \in Handlers |-> "none"]
  /\ hReply = [h \in Handlers |-> <<>>]
  /\ history = <<system>>
  /\ passed = <<>>
  /\ hError = [h \in Handlers |-> NoError]
  /\ event = [kind |-> "start"]
  /\ hLines = [h \in Handlers |-> <<>>]
  /\ hAct = [h \in Handlers |-> NoAct]
  /\ hDid = [h \in Handlers |-> {}]

\* the agent is a program of its own: not started while the chat client runs
NotReturned == <<"none">>

AgentOff ==
  /\ variant = "none"
  /\ apc = "off"
  /\ agentHistory = <<>>
  /\ loopI = 0
  /\ pendingCalls = <<>>
  /\ nextCall = 1
  /\ turns = 0
  /\ modelCalls = 0
  /\ responses = <<>>
  /\ returned = NotReturned
  /\ sent = <<>>

FnIdle ==
  /\ fpc = "idle"
  /\ inOp = "none"
  /\ inText = <<>>
  /\ inNum = 0
  /\ inSender = "me"
  /\ outLines = <<>>
  /\ outWidth = 0
  /\ outCalls = <<>>

StepIdle ==
  /\ wpc = "idle"
  /\ wParas = <<>>
  /\ wP = 0
  /\ wWords = <<>>
  /\ wW = 0
  /\ wLine = <<>>
  /\ wLines = <<>>
  /\ wI = 0

----------------------------------------------------------------------------
(* SpecPure: one call of wrapText or of bubbleLines on a drawn input *)

InitPure ==
  /\ SessInit /\ StepIdle /\ client = "plain" /\ AgentOff
  /\ fpc = "call"
  /\ inText \in Texts
  /\ outLines = <<>>
  /\ outWidth = 0
  /\ outCalls = <<>>
  /\ \/ inOp = "wrapText" /\ inNum \in MinWidth..MaxWidth /\ inSender = "me"
     \/ inOp = "bubbleLines" /\ inNum \in 0..MaxBubbleWidth /\ inSender \in Senders

CallWrapText ==
  /\ fpc = "call" /\ inOp = "wrapText"
  /\ outLines' = wrapText(inText, inNum)
  /\ fpc' = "done"
  /\ UNCHANGED <<inOp, inText, inNum, inSender, outWidth, outCalls, sessVars, stepVars, agentVars>>

CallBubbleLines ==
  /\ fpc = "call" /\ inOp = "bubbleLines"
  /\ LET b == bubbleLines(inSender, inText, clock, inNum)
     IN outLines' = b.lines /\ outWidth' = b.width
  /\ fpc' = "done"
  /\ UNCHANGED <<inOp, inText, inNum, inSender, outCalls, sessVars, stepVars, agentVars>>

NextPure == CallWrapText \/ CallBubbleLines

SpecPure == InitPure /\ [][NextPure]_vars

WrapDone == fpc = "done" /\ inOp = "wrapText"
BubbleDone == fpc = "done" /\ inOp = "bubbleLines"


----------------------------------------------------------------------------
(* Claims about wrapText and bubbleLines, checked under SpecPure *)

\* the number of newline characters of s
RECURSIVE CountNewlines(_)
CountNewlines(s) ==
  IF s = <<>> THEN 0
  ELSE (IF Head(s) = "\n" THEN 1 ELSE 0) + CountNewlines(Tail(s))

\* C5: for every input string and every width >= 10, every line returned by
\* wrapText has length <= width.
C5_WrapWidthBound ==
  (WrapDone /\ inNum >= 10) =>
    \A k \in 1..Len(outLines) : Len(outLines[k]) <= inNum

\* a call on a one-paragraph text that had to wrap, with a line filled to
\* exactly the width
C5_Witness ==
  /\ WrapDone /\ inNum >= 10
  /\ CountNewlines(inText) = 0
  /\ Len(outLines) >= 2
  /\ \E k \in 1..Len(outLines) : Len(outLines[k]) = inNum

\* C6 as stated: the width returned by bubbleLines never exceeds the maxWidth
\* passed in.
C6_WidthAtMostMax == BubbleDone => outWidth <= inNum

\* the smallest bubble that holds the 10-column content floor:
\* 10 + 2 * innerPadX + 2 border columns
FloorBubbleWidth == 10 + 2 * innerPadX + 2

\* C6 amended: the width returned by bubbleLines never exceeds
\* max(maxWidth, 14); so it never exceeds maxWidth when maxWidth >= 14.
C6_WidthBound == BubbleDone => outWidth <= Max(inNum, FloorBubbleWidth)

\* a bubble as wide as the maximum it was given, and one at the floor's width
\* for a smaller maximum
C6_Witness ==
  /\ BubbleDone
  /\ \/ inNum > FloorBubbleWidth /\ outWidth = inNum
     \/ inNum < FloorBubbleWidth /\ outWidth = FloorBubbleWidth

RECURSIVE CountBlank(_)
CountBlank(ls) ==
  IF ls = <<>> THEN 0
  ELSE (IF Head(ls) = <<>> THEN 1 ELSE 0) + CountBlank(Tail(ls))

\* the lines of paragraph k alone, flushed
ParaLines(paras, k, width) ==
  LET st == WrapWords(Words(paras[k]), 1, <<>>, <<>>, width)
  IN IF st.line # <<>> THEN Append(st.lines, st.line) ELSE st.lines

\* every paragraph's lines, each paragraph but the last (by position)
\* followed by one blank line
RECURSIVE WithBreaks(_, _, _)
WithBreaks(paras, k, width) ==
  IF k > Len(paras) THEN <<>>
  ELSE ParaLines(paras, k, width)
         \o (IF k < Len(paras) THEN <<<<>>>> ELSE <<>>)
         \o WithBreaks(paras, k + 1, width)

\* C7: each paragraph other than the final one is followed by exactly one
\* blank line and the final one by none, so the number of empty output lines
\* equals the number of newline characters of the text.
C7_ParagraphBreaks ==
  WrapDone =>
    /\ outLines = WithBreaks(SplitParas(inText), 1, inNum)
    /\ CountBlank(outLines) = CountNewlines(inText)

\* the lines joined back: a blank line is a newline, two consecutive content
\* lines are joined by one space
RECURSIVE Rejoin(_, _)
Rejoin(ls, k) ==
  IF k > Len(ls) THEN <<>>
  ELSE (IF ls[k] = <<>> THEN <<"\n">>
        ELSE (IF k > 1 /\ ls[k - 1] # <<>> THEN <<" ">> ELSE <<>>) \o ls[k])
       \o Rejoin(ls, k + 1)

\* words joined by one space
RECURSIVE JoinWords(_)
JoinWords(ws) ==
  IF ws = <<>> THEN <<>>
  ELSE IF Len(ws) = 1 THEN ws[1]
  ELSE ws[1] \o <<" ">> \o JoinWords(Tail(ws))

\* the text with every whitespace run of a paragraph made one space and the
\* paragraphs' leading and trailing whitespace dropped
RECURSIVE NormalizeParas(_, _)
NormalizeParas(paras, k) ==
  IF k > Len(paras) THEN <<>>
  ELSE JoinWords(Words(paras[k]))
         \o (IF k < Len(paras) THEN <<"\n">> ELSE <<>>)
         \o NormalizeParas(paras, k + 1)

Normalize(text) == NormalizeParas(SplitParas(text), 1)

\* C8: joining the lines returned by wrapText (content lines by a space,
\* each blank line back into a newline) gives the whitespace-normalized text.
C8_WrapReversible ==
  (WrapDone /\ inNum >= 10) => Rejoin(outLines, 1) = Normalize(inText)

\* the successive width-sized slices of w: ceil(L / width) of them
Slices(w, width) ==
  LET n == (Len(w) + width - 1) \div width
  IN [j \in 1..n |-> SubSeq(w, (j - 1) * width + 1, Min(j * width, Len(w)))]

\* what the words of the text must appear as, in order: a word no longer
\* than the width whole, a longer one as its slices
RECURSIVE ExpectedTokens(_, _, _)
ExpectedTokens(ws, k, width) ==
  IF k > Len(ws) THEN <<>>
  ELSE (IF Len(ws[k]) > width
        THEN [j \in 1..Len(Slices(ws[k], width)) |->
                [tok |-> Slices(ws[k], width)[j], alone |-> TRUE]]
        ELSE <<[tok |-> ws[k], alone |-> FALSE]>>)
       \o ExpectedTokens(ws, k + 1, width)

\* the tokens of the lines, each with the number of tokens of its line
RECURSIVE LineTokens(_, _)
LineTokens(ls, k) ==
  IF k > Len(ls) THEN <<>>
  ELSE [j \in 1..Len(Words(ls[k])) |->
          [tok |-> Words(ls[k])[j], count |-> Len(Words(ls[k]))]]
       \o LineTokens(ls, k + 1)

\* C9: a word longer than the width is emitted as ceil(L / width)
\* consecutive lines, its successive width-sized slices in order; every word
\* of length <= width appears whole on one line.
C9_LongWordSplit ==
  WrapDone =>
    LET expected == ExpectedTokens(Words(inText), 1, inNum)
        actual == LineTokens(outLines, 1)
    IN /\ Len(actual) = Len(expected)
       /\ \A k \in 1..Len(expected) :
            /\ actual[k].tok = expected[k].tok
            /\ expected[k].alone => actual[k].count = 1

\* the word of length 25 at width 10, as lines of lengths 10, 10, 5, next to
\* a short word kept whole
C9_Witness ==
  /\ WrapDone /\ inNum = 10
  /\ \E k \in 1..Len(outLines) :
       /\ k + 2 <= Len(outLines)
       /\ outLines[k] = SubSeq(Word25, 1, 10)
       /\ outLines[k + 1] = SubSeq(Word25, 11, 20)
       /\ outLines[k + 2] = SubSeq(Word25, 21, 25)
  /\ \E k \in 1..Len(outLines) : outLines[k] = WordBC


\* a line of a bubble without the style tags the formatter put around it
Unstyled(line, sender) ==
  SubSeq(line, Len(StyleOpen(sender)) + 1, Len(line) - Len(StyleClose))

\* the visible length of a decorated line: style tags excluded
VisibleLen(line, sender) == Len(stripTags(Unstyled(line, sender)))

\* C18: bubbleLines' content width is max(1, longest visible wrapped-line
\* length) capped at the inner width, the returned width is content width + 4,
\* and the top border, the bottom border and every content line have visible
\* length exactly the returned width.
C18_BubbleGeometry ==
  BubbleDone =>
    LET inner == MaxInner(inNum)
        wrapped == wrapText(inText, inner)
        longest == IF wrapped = <<>> THEN 0
                   ELSE CHOOSE n \in {Len(stripTags(wrapped[k])) : k \in 1..Len(wrapped)} :
                          \A k \in 1..Len(wrapped) : Len(stripTags(wrapped[k])) <= n
        contentWidth == Min(inner, Max(1, longest))
    IN /\ outWidth = contentWidth + 4
       /\ Len(outLines) = Len(wrapped) + 3
       /\ \A k \in 1..(Len(wrapped) + 2) :
            /\ SubSeq(outLines[k], 1, Len(StyleOpen(inSender))) = StyleOpen(inSender)
            /\ VisibleLen(outLines[k], inSender) = outWidth

\* a bubble of a text with a style tag in it: a wrapped line whose visible
\* length is less than its length, in a bubble wider than the floor of 1
C18_Witness ==
  /\ BubbleDone
  /\ outWidth > 5
  /\ \E k \in 2..(Len(outLines) - 2) :
       /\ VisibleLen(outLines[k], inSender) = outWidth
       /\ Len(Unstyled(outLines[k], inSender)) > outWidth

----------------------------------------------------------------------------
(* SpecRender: one call of render() on a drawn session state, with a       *)
(* drawn screen.width and a drawn reading of the clock.                    *)

\* the messages of a drawn session state: short and empty ones, and long
\* ones that wrap and fill a bubble of any width
LongText ==
  Word25 \o Word25 \o Word11 \o <<"\n">> \o WordA \o <<" ">> \o WordBC

RenderPicks ==
  {[sender |-> "me", text |-> <<"h", "i">>],
   [sender |-> "me", text |-> LongText],
   [sender |-> "them", text |-> LongText],
   [sender |-> "system", text |-> <<>>],
   [sender |-> "me", text |-> <<>>]}

RenderMessages == UNION {[1..n -> RenderPicks] : n \in 0..MaxMessages}

\* milliseconds in a minute
Minute == 60000

\* screen.width at a render
Viewports == (0..MaxNarrow) \cup {ViewportWidth, WideViewport}

InitRender ==
  /\ StepIdle /\ AgentOff
  /\ \E ms \in RenderMessages :
       /\ messages = [k \in 1..Len(ms) |->
                        [id |-> k, sender |-> ms[k].sender,
                         text |-> ms[k].text, ts |-> 0]]
       /\ calls = ms
       /\ nextId = Len(ms) + 1
  /\ typing \in BOOLEAN
  /\ typingFrame \in (IF typing THEN 0..MaxFrame ELSE {0})
  /\ typingAnim = (IF typing THEN 1 ELSE NoTimer)
  /\ timers = (IF typing THEN {1} ELSE {})
  /\ nextTimer = 2
  /\ clock \in {m * Minute : m \in 0..MaxMinutes}
  /\ shown = [messages |-> <<>>, typing |-> FALSE, typingFrame |-> 0, clock |-> 0]
  /\ scrollPerc = 100
  /\ trace = <<>>
  /\ lastOp = <<>>
  /\ running = TRUE
  /\ submitted = 0
  /\ hpc = [h \in Handlers |-> "none"]
  /\ hReply = [h \in Handlers |-> <<>>]
  /\ history = <<system>>
  /\ passed = <<>>
  /\ hError = [h \in Handlers |-> NoError]
  /\ event = [kind |-> "start"]
  /\ client = "plain"
  /\ hLines = [h \in Handlers |-> <<>>]
  /\ hAct = [h \in Handlers |-> NoAct]
  /\ hDid = [h \in Handlers |-> {}]
  /\ fpc = "call" /\ inOp = "render"
  /\ inNum \in Viewports
  /\ inText = <<>> /\ inSender = "me"
  /\ outLines = <<>> /\ outWidth = 0 /\ outCalls = <<>>

\* render(): a negative count passed to repeat throws before setContent
CallRender ==
  /\ fpc = "call" /\ inOp = "render"
  /\ outCalls' = RenderCalls(Cur, inNum)
  /\ IF \E k \in 1..Len(outCalls') : \E n \in outCalls'[k].repeats : n < 0
     THEN /\ fpc' = "threw"
          /\ UNCHANGED <<stateVars, outLines>>
     ELSE /\ fpc' = "done"
          /\ outLines' = Flatten([k \in 1..Len(outCalls') |-> outCalls'[k].out])
          /\ Becomes(render(Cur))
  /\ UNCHANGED <<inOp, inText, inNum, inSender, outWidth, lastOp, clientVars,
                 stepVars, agentVars>>

NextRender == CallRender

SpecRender == InitRender /\ [][NextRender]_vars

RenderReturned == inOp = "render" /\ fpc # "call"

\* C11: for every viewport width W >= 0 and every session state, render
\* terminates with the content set: every bubbleLines call, for the messages
\* and for the typing bubble alike, wraps at an inner width >= 10 and no count
\* passed to repeat is negative.
C11_RenderNeverFails ==
  RenderReturned =>
    /\ fpc = "done"
    /\ trace = SurfaceCalls
    /\ outLines = RenderLines(Cur, inNum)
    /\ Len(outCalls) = Len(messages) + (IF typing THEN 1 ELSE 0)
    /\ \A k \in 1..Len(outCalls) :
         /\ outCalls[k].inner >= 10
         /\ \A n \in outCalls[k].repeats : n >= 0

\* a viewport narrower than a bubble: a "me" message padded by 0, not by a
\* negative count, and the typing bubble, both rendered
C11_Witness ==
  /\ RenderReturned /\ fpc = "done"
  /\ inNum < FloorBubbleWidth
  /\ typing
  /\ \E k \in 1..Len(messages) :
       /\ messages[k].sender = "me"
       /\ inNum - outCalls[k].width - 2 < 0
       /\ outCalls[k].pad = 0

\* floor(0.7 * W), of the real number 0.7 * W
FloorSeventyPercent(W) == (7 * W) \div 10

\* line is pad spaces followed by rest
PrefixedBy(line, pad, rest) ==
  /\ Len(line) = pad + Len(rest)
  /\ \A j \in 1..pad : line[j] = " "
  /\ SubSeq(line, pad + 1, Len(line)) = rest

\* C15: with viewport width W, every line of a "me" bubble is prefixed with
\* max(0, W - width - 2) spaces, so that the bubble ends two columns from
\* the right edge when width <= W - 2 and is flush left otherwise; every line
\* of a "them" or "system" bubble is prefixed with one space; each message's
\* bubble is computed with maximum width floor(0.7 * W).
C15_Alignment ==
  (RenderReturned /\ fpc = "done") =>
    \A k \in 1..Len(messages) :
      LET c == outCalls[k]
          b == bubbleLines(messages[k].sender, messages[k].text, messages[k].ts,
                           c.maxWidth)
          me == messages[k].sender = "me"
      IN /\ c.maxWidth = FloorSeventyPercent(inNum)
         /\ c.width = b.width
         /\ me => c.pad = Max(0, inNum - c.width - 2)
         /\ (me /\ c.width <= inNum - 2) => c.pad + c.width = inNum - 2
         /\ (me /\ c.width > inNum - 2) => c.pad = 0
         /\ ~me => c.pad = 1
         /\ Len(c.out) = Len(b.lines) + 1
         /\ \A j \in 1..Len(b.lines) : PrefixedBy(c.out[j], c.pad, b.lines[j])

\* the bubbles of the messages from the k-th on, each followed by one blank
\* line
RECURSIVE LayoutFrom(_, _, _)
LayoutFrom(msgs, k, W) ==
  IF k > Len(msgs) THEN <<>>
  ELSE LET b == bubbleLines(msgs[k].sender, msgs[k].text, msgs[k].ts, maxBubble(W))
       IN Padded(b, Pad(msgs[k].sender, W, b.width)) \o <<<<>>>>
            \o LayoutFrom(msgs, k + 1, W)

\* the layout of a state at a viewport width and a reading of the clock
Layout(msgs, on, frame, now, W) ==
  LayoutFrom(msgs, 1, W)
    \o (IF on
        THEN Padded(bubbleLines("them", Dots(frame), now, TypingMax(maxBubble(W))), 1)
               \o <<<<>>>>
        ELSE <<>>)

\* the readings of the clock of a render
RenderClocks == {m * Minute : m \in 0..MaxMinutes}

\* what an earlier render may have left on display
EarlierShown ==
  {[messages |-> <<>>, typing |-> FALSE, typingFrame |-> 0, clock |-> 0],
   [messages |-> <<[id |-> 1, sender |-> "them", text |-> LongText, ts |-> 0]>>,
    typing |-> TRUE, typingFrame |-> 2, clock |-> 0]}

\* C16 as stated: the content is the bubble of m1, a blank line, ..., the
\* bubble of mN, a blank line and, only when typing is active, the typing
\* bubble and a blank line last; it depends only on the current state and the
\* viewport width.
C16_StateAndWidthOnly ==
  (RenderReturned /\ fpc = "done") =>
    \A now \in RenderClocks, sh \in EarlierShown :
      /\ outLines = Layout(messages, typing, typingFrame, now, inNum)
      /\ RenderLines([Cur EXCEPT !.clock = now, !.shown = sh], inNum) = outLines

\* C16 amended: the same layout, which depends only on the current state,
\* the viewport width and, while typing is active, the time of the render
\* (the timestamp of the typing bubble is Date.now()); not on earlier renders.
C16_FullRelayout ==
  (RenderReturned /\ fpc = "done") =>
    /\ outLines = Layout(messages, typing, typingFrame, clock, inNum)
    /\ \A now \in RenderClocks, sh \in EarlierShown :
         (typing => now = clock) =>
           RenderLines([Cur EXCEPT !.clock = now, !.shown = sh], inNum) = outLines

\* two messages and the typing indicator rendered a minute after the
\* messages were sent: three bubbles, the typing bubble last, and the content
\* ends with a blank line
C16_Witness ==
  /\ RenderReturned /\ fpc = "done"
  /\ Len(messages) = 2 /\ messages[1] # messages[2] /\ typing
  /\ clock > 0
  /\ Len(outCalls) = 3 /\ outCalls[3].indicator
  /\ outLines[Len(outLines)] = <<>>
  /\ outLines # Layout(messages, typing, typingFrame, 0, inNum)

----------------------------------------------------------------------------
(* Spec: the chat client. The input box submits lines; every accepted line *)
(* starts one onMessage handler, which runs between its awaits as one step *)
(* of the event loop; the typing timer ticks while it is live.             *)

Null == <<"null">>

\* String.prototype.trim()
RECURSIVE TrimLeft(_)
TrimLeft(s) == IF s # <<>> /\ IsSpace(Head(s)) THEN TrimLeft(Tail(s)) ELSE s

RECURSIVE TrimRight(_)
TrimRight(s) ==
  IF s # <<>> /\ IsSpace(s[Len(s)]) THEN TrimRight(SubSeq(s, 1, Len(s) - 1)) ELSE s

Trim(s) == TrimRight(TrimLeft(s))

Quit == <<"/", "q", "u", "i", "t">>

\* what the user may submit
Lines == {<<"h", "i">>, <<" ", "y", "o", " ">>, <<" ">>, <<>>, Quit \o <<" ">>}

\* msg.content of a model reply
Contents == {Null, <<" ", "o", "k">>}

\* e?.message of a rejection
ErrorMessages == {Null, <<"b", "a", "d">>}

\* a record of one call of an exported operation, for the history variable
OpAdd(sender) == [op |-> "addMessage", sender |-> sender]
OpTyping(on) ==
  [op |-> "setTyping", on |-> on, wasTyping |-> typing, wasFrame |-> typingFrame]

\* the text of a caught rejection: e?.message ?? "error"
ErrorText(e) == IF e = Null THEN <<"e", "r", "r", "o", "r">> ELSE e

\* inputBox.clearValue(); screen.render(); inputBox.focus()
InputCalls == <<"clearValue", "screen.render", "focus">>

\* the session state when a submit event starts
AtSubmit(now) == [Cur EXCEPT !.clock = now, !.trace = InputCalls]

\* addMessage("me", v); onMessage(v): what is on display when onMessage is
\* invoked
SeenBeforeAppend(before, after) == before.shown.messages
SeenAtCall(before, after) == after.shown.messages

\* inputBox.on("submit", ...): an empty line returns, /quit exits, any other
\* line is appended and handed to onMessage, which runs to its first await:
\* history.push(user); await addHistory("user", text)
Submit(value, now) ==
  LET v == Trim(value)
      before == AtSubmit(now)
      after == addMessage(before, "me", v)
  IN /\ running /\ submitted < MaxSubmits
     /\ event' = [kind |-> "submit", value |-> value]
     /\ IF v = <<>>
        THEN /\ Becomes(before)
             /\ lastOp' = <<>>
             /\ UNCHANGED <<running, submitted, hpc, hReply, history, passed, hError>>
        ELSE IF v = Quit
        THEN /\ Becomes(before)
             /\ running' = FALSE
             /\ lastOp' = <<>>
             /\ UNCHANGED <<submitted, hpc, hReply, history, passed, hError>>
        ELSE /\ Becomes(after)
             /\ lastOp' = <<OpAdd("me")>>
             /\ passed' = Append(passed, [text |-> v,
                                          seen |-> SeenAtCall(before, after)])
             /\ submitted' = submitted + 1
             /\ hpc' = [hpc EXCEPT ![submitted + 1] = "addHistoryUser"]
             /\ history' = Append(history, [role |-> "user", content |-> v])
             /\ UNCHANGED <<running, hReply, hError>>
     /\ UNCHANGED <<gatedVars, fnVars, stepVars, agentVars>>

\* await addHistory("user", text) resolves: setTyping(true); groqChat(history)
UserSaved(h, now) ==
  /\ running /\ hpc[h] = "addHistoryUser"
  /\ Becomes(setTyping(At(now), TRUE))
  /\ lastOp' = <<OpTyping(TRUE)>>
  /\ hpc' = [hpc EXCEPT ![h] = "groqChat"]
  /\ event' = [kind |-> "resolved"]
  /\ UNCHANGED <<running, submitted, hReply, history, passed, hError,
                 gatedVars, fnVars, stepVars, agentVars>>

\* await addHistory("user", text) rejects, outside the try: the handler's
\* promise rejects and nothing else runs
UserSaveFailed(h, e) ==
  /\ running /\ hpc[h] = "addHistoryUser"
  /\ Becomes(At(clock))
  /\ hpc' = [hpc EXCEPT ![h] = "rejected"]
  /\ hError' = [hError EXCEPT ![h] = ErrorText(e)]
  /\ lastOp' = <<>>
  /\ event' = [kind |-> "rejected"]
  /\ UNCHANGED <<running, submitted, hReply, history, passed, gatedVars, fnVars, stepVars, agentVars>>

\* await groqChat(history) resolves: reply = (msg.content ?? "").trim();
\* history.push(assistant); await addHistory("assistant", reply)
ChatReplied(h, c) ==
  /\ running /\ hpc[h] = "groqChat"
  /\ Becomes(At(clock))
  /\ hReply' = [hReply EXCEPT ![h] = Trim(IF c = Null THEN <<>> ELSE c)]
  /\ history' = Append(history, [role |-> "assistant", content |-> hReply'[h]])
  /\ hpc' = [hpc EXCEPT ![h] = "addHistoryAssistant"]
  /\ lastOp' = <<>>
  /\ event' = [kind |-> "resolved"]
  /\ UNCHANGED <<running, submitted, passed, hError, gatedVars, fnVars, stepVars, agentVars>>

\* groqChat or addHistory("assistant", reply) rejects inside the try:
\* catch (e) { setTyping(false); addMessage("system", e?.message ?? "error") }
CaughtTypingLeftOn(h, e, now) ==
  /\ running /\ hpc[h] \in {"groqChat", "addHistoryAssistant"}
  /\ Becomes(addMessage(At(now), "system", ErrorText(e)))
  /\ lastOp' = <<OpAdd("system")>>
  /\ hpc' = [hpc EXCEPT ![h] = "done"]
  /\ hError' = [hError EXCEPT ![h] = ErrorText(e)]
  /\ event' = [kind |-> "rejected"]
  /\ UNCHANGED <<running, submitted, hReply, history, passed, gatedVars, fnVars, stepVars, agentVars>>
Caught(h, e, now) ==
  /\ running /\ hpc[h] \in {"groqChat", "addHistoryAssistant"}
  /\ Becomes(addMessage(setTyping(At(now), FALSE), "system", ErrorText(e)))
  /\ lastOp' = <<OpTyping(FALSE), OpAdd("system")>>
  /\ hpc' = [hpc EXCEPT ![h] = "done"]
  /\ hError' = [hError EXCEPT ![h] = ErrorText(e)]
  /\ event' = [kind |-> "rejected"]
  /\ UNCHANGED <<running, submitted, hReply, history, passed, gatedVars, fnVars, stepVars, agentVars>>

\* await addHistory("assistant", reply) resolves: setTyping(false);
\* addMessage("them", reply)
ReplySaved(h, now) ==
  /\ running /\ hpc[h] = "addHistoryAssistant"
  /\ Becomes(addMessage(setTyping(At(now), FALSE), "them", hReply[h]))
  /\ lastOp' = <<OpTyping(FALSE), OpAdd("them")>>
  /\ hpc' = [hpc EXCEPT ![h] = "done"]
  /\ event' = [kind |-> "resolved"]
  /\ UNCHANGED <<running, submitted, hReply, history, passed, hError,
                 gatedVars, fnVars, stepVars, agentVars>>

\* the interval callback of a live timer fires
Tick(t, now) ==
  /\ running /\ t \in timers /\ typingFrame < MaxFrame
  /\ Becomes(tick(At(now)))
  /\ lastOp' = <<[op |-> "tick"]>>
  /\ event' = [kind |-> "tick"]
  /\ UNCHANGED <<running, submitted, hpc, hReply, history, passed, hError,
                 gatedVars, fnVars, stepVars, agentVars>>

Init == SessInit /\ FnIdle /\ StepIdle /\ client = "plain" /\ AgentOff

Next ==
  \/ \E value \in Lines, now \in Nows : Submit(value, now)
  \/ \E h \in Handlers, now \in Nows : UserSaved(h, now)
  \/ \E h \in Handlers, e \in ErrorMessages : UserSaveFailed(h, e)
  \/ \E h \in Handlers, c \in Contents : ChatReplied(h, c)
  \/ \E h \in Handlers, e \in ErrorMessages, now \in Nows : Caught(h, e, now)
  \/ \E h \in Handlers, now \in Nows : ReplySaved(h, now)
  \/ \E t \in timers, now \in Nows : Tick(t, now)

Spec == Init /\ [][Next]_vars


----------------------------------------------------------------------------
(* Claims about the session state, checked under Spec *)

\* C1: in every reachable state at most one interval timer is live, and
\* every live timer is the one state.typingAnim refers to; a step creates a
\* timer only when state.typingAnim is null.
C1_OneTimer ==
  /\ [](/\ Cardinality(timers) <= 1
        /\ \A t \in timers : t = typingAnim)
  /\ [][(timers' \ timers # {}) => typingAnim = NoTimer]_vars

\* setTyping(true) was called while the indicator was already on (a second
\* handler overlapping the first), and one timer is live
C1_Witness ==
  /\ Len(lastOp) = 1
  /\ lastOp[1].op = "setTyping" /\ lastOp[1].on /\ lastOp[1].wasTyping
  /\ Cardinality(timers) = 1

\* C2: a timer is live exactly when state.typing is true, typingFrame is 0
\* whenever state.typing is false, and typingFrame advances only while the
\* indicator is on.
C2_TimerIffTyping ==
  /\ [](/\ typing <=> timers # {}
        /\ typing <=> typingAnim # NoTimer
        /\ ~typing => typingFrame = 0)
  /\ [][(typingFrame' > typingFrame) => (typing /\ typing')]_vars

\* setTyping(false) was called after ticks had advanced the frame
C2_Witness ==
  /\ lastOp # <<>>
  /\ lastOp[1].op = "setTyping" /\ ~lastOp[1].on
  /\ lastOp[1].wasTyping /\ lastOp[1].wasFrame > 0
  /\ ~typing /\ timers = {} /\ typingFrame = 0

\* C3: setTyping(true) while the indicator is on leaves the timer handle,
\* the live timers (one, so one increment per interval) and typingFrame
\* unchanged; setTyping(false) while it is off changes nothing of the
\* session state but what render shows.
C3_Idempotent ==
  /\ typing =>
       LET st == setTyping(Cur, TRUE)
       IN /\ st.typingAnim = typingAnim
          /\ st.timers = timers /\ Cardinality(st.timers) = 1
          /\ st.typingFrame = typingFrame
          /\ st.typing
  /\ ~typing =>
       LET st == setTyping(Cur, FALSE)
       IN [st EXCEPT !.shown = shown, !.scrollPerc = scrollPerc,
                     !.trace = trace] = Cur

\* a handler called setTyping(true) when another had the indicator on and
\* ticks had advanced the frame, which is kept
C3_Witness ==
  /\ Len(lastOp) = 1
  /\ lastOp[1].op = "setTyping" /\ lastOp[1].on
  /\ lastOp[1].wasTyping /\ lastOp[1].wasFrame > 0
  /\ typingFrame = lastOp[1].wasFrame

\* C4: state.messages holds one message per addMessage call, in call order,
\* and no step removes, reorders or changes a message already appended.
C4_AppendOnly ==
  /\ [](/\ Len(messages) = Len(calls)
        /\ \A k \in 1..Len(messages) :
             /\ messages[k].sender = calls[k].sender
             /\ messages[k].text = calls[k].text)
  /\ [][/\ Len(messages') >= Len(messages)
        /\ \A k \in 1..Len(messages) : messages'[k] = messages[k]]_vars

\* four messages of three senders, appended around typing and ticks
C4_Witness ==
  /\ Len(messages) = 4
  /\ {messages[k].sender : k \in 1..4} = Senders
  /\ \E k \in 1..3 : messages[k].ts < messages[k + 1].ts


----------------------------------------------------------------------------
(* SpecSteps: wrapText run statement by statement, so that a call that    *)
(* does not return is a behaviour. It is called directly, with any width,  *)
(* the widths bubbleLines never passes (width <= 0) included.              *)

\* smallest width of a statement-by-statement run
MinStepWidth == 0 - 1

InitSteps ==
  /\ SessInit /\ client = "plain" /\ AgentOff
  /\ fpc = "idle" /\ inOp = "wrapText" /\ inSender = "me"
  /\ outLines = <<>> /\ outWidth = 0 /\ outCalls = <<>>
  /\ inText \in Texts
  /\ inNum \in MinStepWidth..MaxStepWidth
  /\ wpc = "start"
  /\ wParas = <<>> /\ wP = 0 /\ wWords = <<>> /\ wW = 0
  /\ wLine = <<>> /\ wLines = <<>> /\ wI = 0

\* const paras = text.split("\n"); const lines = []
WStart ==
  /\ wpc = "start"
  /\ wParas' = SplitParas(inText)
  /\ wLines' = <<>>
  /\ wP' = 1
  /\ wpc' = "para"
  /\ UNCHANGED <<wWords, wW, wLine, wI, sessVars, fnVars, agentVars>>

\* for (const p of paras): the next paragraph's words and line = "", or
\* return lines
WPara ==
  /\ wpc = "para"
  /\ IF wP > Len(wParas)
     THEN wpc' = "done" /\ UNCHANGED <<wWords, wW, wLine>>
     ELSE /\ wWords' = Words(wParas[wP])
          /\ wLine' = <<>>
          /\ wW' = 1
          /\ wpc' = "word"
  /\ UNCHANGED <<wParas, wP, wLines, wI, sessVars, fnVars, agentVars>>

\* for (const w of words): one word up to the chunk loop; after the last
\* word, if (line) lines.push(line); if (p !== last) lines.push("")
WWord ==
  /\ wpc = "word"
  /\ IF wW > Len(wWords)
     THEN /\ wLines' = (IF wLine # <<>> THEN Append(wLines, wLine) ELSE wLines)
                         \o (IF NotLastPara(wParas, wP) THEN <<<<>>>> ELSE <<>>)
          /\ wP' = wP + 1
          /\ wpc' = "para"
          /\ UNCHANGED <<wLine, wW, wI>>
     ELSE IF Fits(Joined(wLine, wWords[wW]), inNum)
          THEN /\ wLine' = Joined(wLine, wWords[wW])
               /\ wW' = wW + 1
               /\ UNCHANGED <<wLines, wP, wI, wpc>>
          ELSE /\ wLines' = (IF wLine # <<>> THEN Append(wLines, wLine) ELSE wLines)
               /\ IF Len(wWords[wW]) > inNum
                  THEN wI' = 0 /\ wpc' = "chunk" /\ UNCHANGED <<wLine, wW, wP>>
                  ELSE wLine' = wWords[wW] /\ wW' = wW + 1 /\ UNCHANGED <<wI, wP, wpc>>
  /\ UNCHANGED <<wParas, wWords, sessVars, fnVars, agentVars>>

\* for (let i = 0; i < w.length; i += width) lines.push(w.slice(i, i + width));
\* then line = "". A push to an array at its largest length fails.
WChunk ==
  /\ wpc = "chunk"
  /\ IF wI < Len(wWords[wW])
     THEN IF Len(wLines) < MaxArrayLength
          THEN /\ wLines' = Append(wLines, Slice(wWords[wW], wI, wI + inNum))
               /\ wI' = wI + inNum
               /\ UNCHANGED <<wLine, wW, wpc>>
          ELSE wpc' = "exhausted" /\ UNCHANGED <<wLines, wI, wLine, wW>>
     ELSE /\ wLine' = <<>>
          /\ wW' = wW + 1
          /\ wpc' = "word"
          /\ UNCHANGED <<wLines, wI>>
  /\ UNCHANGED <<wParas, wP, wWords, sessVars, fnVars, agentVars>>

NextSteps == WStart \/ WPara \/ WWord \/ WChunk

SpecSteps == InitSteps /\ [][NextSteps]_vars

\* C10: called with width <= 0 and a non-empty text, wrapText still
\* terminates and returns a finite list of lines: its loops never run until
\* the memory for the lines is used up.
C10_TerminatesForBadWidth ==
  (inNum <= 0 /\ inText # <<>>) => wpc # "exhausted"


----------------------------------------------------------------------------
(* Claims about what the chat client's renders show, checked under Spec *)

\* the glyph of a frame: no text, ".", "..", "..."
Glyph(frame) ==
  CASE frame % 4 = 0 -> <<>>
    [] frame % 4 = 1 -> <<".">>
    [] frame % 4 = 2 -> <<".", ".">>
    [] OTHER -> <<".", ".", ".">>

\* the typing bubble as render must push it: a "them" bubble around the
\* glyph, every line behind one space, and a blank line
GlyphBubble(frame, now) ==
  LET g == Glyph(frame)
      cw == Max(1, Len(g))
      open == StyleOpen("them")
  IN <<<<" ">> \o open \o <<BoxTL>> \o Repeat(BoxH, cw + 2) \o <<BoxTR>> \o StyleClose>>
     \o (IF g = <<>> THEN <<>>
         ELSE <<<<" ">> \o open \o <<BoxV, " ">> \o g \o <<" ", BoxV>> \o StyleClose>>)
     \o <<<<" ">> \o open \o <<BoxBL>> \o Repeat(BoxH, cw + 2) \o <<BoxBR>> \o StyleClose>>
     \o <<<<" ", " ">> \o <<"{", "g", "r", "a", "y", "-", "f", "g", "}">>
            \o timeHHMM(now) \o <<"{", "/", "g", "r", "a", "y", "-", "f", "g", "}">>>>
     \o <<<<>>>>

\* viewport widths on both sides of the one where 70% reaches the cap of
\* 18 columns (0.7 * 25 = 17.5, 0.7 * 26 = 18.2)
IndicatorWidths == {0, 25, 26, ViewportWidth, WideViewport}

\* what render shows of the typing indicator alone, at width W
IndicatorShown(W) == RenderCalls([shown EXCEPT !.messages = <<>>], W)

\* C17: while typing is active every render appends exactly one left-aligned
\* "them" bubble, built with maximum width min(18, floor(0.7 * W)), whose
\* content is the glyph of typingFrame mod 4; the first render after
\* setTyping(false) has no typing bubble.
C17_TypingBubble ==
  /\ [](shown.typing =>
          /\ RenderLines(shown, ViewportWidth)
               = LayoutFrom(shown.messages, 1, ViewportWidth)
                   \o GlyphBubble(shown.typingFrame, shown.clock)
          /\ \A W \in IndicatorWidths :
               /\ Len(IndicatorShown(W)) = 1
               /\ IndicatorShown(W)[1].out = GlyphBubble(shown.typingFrame, shown.clock)
               /\ IndicatorShown(W)[1].maxWidth = Min(18, FloorSeventyPercent(W)))
  /\ [](LET st == setTyping(Cur, FALSE)
        IN /\ ~st.shown.typing
           /\ RenderLines(st.shown, ViewportWidth)
                = LayoutFrom(messages, 1, ViewportWidth))
  /\ [][(\E k \in 1..Len(lastOp') :
            lastOp'[k].op = "setTyping" /\ ~lastOp'[k].on)
        => /\ ~shown'.typing
           /\ \A W \in IndicatorWidths : IndicatorShown(W)' = <<>>]_vars

\* the indicator on display after three ticks, below a message: the "..."
\* bubble is the last thing shown
C17_Witness ==
  /\ shown.typing /\ shown.typingFrame = 3 /\ Len(shown.messages) >= 1
  /\ lastOp = <<[op |-> "tick"]>>
  /\ IndicatorShown(ViewportWidth)[1].out[2]
       = <<" ">> \o StyleOpen("them") \o <<BoxV, " ", ".", ".", ".", " ", BoxV>>
           \o StyleClose

\* C19: addMessage changes only state.messages (typing, typingFrame and the
\* timer handle are unchanged), setTyping and a tick leave state.messages
\* unchanged, a tick changes only typingFrame, by exactly +1, render changes
\* no state field, and no step changes the state but through these.
C19_FrameEffects ==
  /\ [](\A sender \in Senders, text \in {<<>>, Quit} :
          LET st == addMessage(Cur, sender, text)
          IN /\ st.typing = typing /\ st.typingFrame = typingFrame
             /\ st.typingAnim = typingAnim /\ st.timers = timers
             /\ Len(st.messages) = Len(messages) + 1
             /\ SubSeq(st.messages, 1, Len(messages)) = messages)
  /\ [](\A on \in BOOLEAN : setTyping(Cur, on).messages = messages)
  /\ [](LET st == tick(Cur)
        IN /\ st.messages = messages /\ st.typing = typing
           /\ st.typingAnim = typingAnim /\ st.timers = timers
           /\ st.typingFrame = typingFrame + 1)
  /\ [](LET st == render(Cur)
        IN /\ st.messages = messages /\ st.typing = typing
           /\ st.typingAnim = typingAnim /\ st.timers = timers
           /\ st.typingFrame = typingFrame)
  /\ [][/\ (<<messages, typing, typingAnim, typingFrame>>'
              # <<messages, typing, typingAnim, typingFrame>>) => lastOp' # <<>>
        /\ lastOp' = <<[op |-> "tick"]>> =>
             /\ typingFrame' = typingFrame + 1
             /\ <<messages, typing, typingAnim, timers>>'
                  = <<messages, typing, typingAnim, timers>>
        /\ (Len(lastOp') = 1 /\ lastOp'[1].op = "addMessage") =>
             <<typing, typingAnim, typingFrame, timers>>'
               = <<typing, typingAnim, typingFrame, timers>>
        /\ (Len(lastOp') = 1 /\ lastOp'[1].op = "setTyping") =>
             messages' = messages]_vars

\* a tick that advanced the frame from 1 to 2 while messages were on display
C19_Witness ==
  /\ lastOp = <<[op |-> "tick"]>>
  /\ typingFrame = 2 /\ typing
  /\ Len(messages) = 2

\* C13: for every submitted line onMessage is invoked exactly once if the
\* trimmed line is non-empty and is not /quit, and only after the user's "me"
\* message has been appended and rendered; an empty line or /quit is never
\* appended to state.messages and never passed to the callback.
C13_CallbackOncePerLine ==
  /\ [](/\ Len(passed) = submitted
        /\ \A k \in 1..Len(passed) :
             /\ passed[k].text \notin {<<>>, Quit}
             /\ passed[k].seen # <<>>
             /\ passed[k].seen[Len(passed[k].seen)].sender = "me"
             /\ passed[k].seen[Len(passed[k].seen)].text = passed[k].text)
  /\ [][event'.kind = "submit" =>
          LET v == Trim(event'.value)
          IN IF v = <<>> \/ v = Quit
             THEN passed' = passed /\ messages' = messages
             ELSE /\ Len(passed') = Len(passed) + 1
                  /\ SubSeq(passed', 1, Len(passed)) = passed
                  /\ passed'[Len(passed')].text = v
                  /\ passed'[Len(passed')].seen = messages'
                  /\ Len(messages') = Len(messages) + 1
                  /\ SubSeq(messages', 1, Len(messages)) = messages
                  /\ messages'[Len(messages')].sender = "me"
                  /\ messages'[Len(messages')].text = v]_vars
  /\ [][event'.kind # "submit" => passed' = passed]_vars

\* a line with spaces around it was passed on trimmed, once, and the /quit
\* submitted after it was neither appended nor passed
C13_Witness ==
  /\ ~running
  /\ event = [kind |-> "submit", value |-> Quit \o <<" ">>]
  /\ Len(passed) = 1 /\ passed[1].text = <<"y", "o">>
  /\ \A k \in 1..Len(messages) : messages[k].text # Quit

\* what an event does to the state
Mutations == {"addMessage", "setTyping", "tick"}

\* C14: every state mutation (each addMessage, each setTyping call, each
\* tick) is followed, before anything else, by exactly one render, which calls
\* setContent, setScrollPerc(100), screen.render in that order; no mutation is
\* left unrendered.
C14_MutateThenRender ==
  /\ \A i \in 1..Len(trace) :
       /\ trace[i] \in Mutations =>
            /\ i + 3 <= Len(trace)
            /\ SubSeq(trace, i + 1, i + 3) = <<"setContent", "setScrollPerc", "screen.render">>
            /\ i + 4 <= Len(trace) => trace[i + 4] \in Mutations
       /\ trace[i] = "setContent" => (i = 1 \/ trace[i - 1] \in Mutations)
  /\ shown.messages = messages
  /\ shown.typing = typing
  /\ shown.typingFrame = typingFrame
  /\ scrollPerc = 100

\* an event with two mutations, each rendered: setTyping(false), then
\* addMessage
C14_Witness ==
  /\ Len(trace) = 8
  /\ trace[1] = "setTyping" /\ trace[5] = "addMessage"
  /\ Len(lastOp) = 2

\* C12: every failure of a collaborator during an onMessage handler ends
\* with a "system" message carrying the error text appended to state.messages;
\* no handler ends on a failure without one.
C12_FailuresSurfaced ==
  \A h \in Handlers :
    (hError[h] # NoError /\ hpc[h] \in {"done", "rejected"}) =>
      \E k \in 1..Len(messages) :
        messages[k].sender = "system" /\ messages[k].text = hError[h]


\* the borders of a bubble whose content is one column wide
EmptyTop == <<BoxTL, BoxH, BoxH, BoxH, BoxTR>>
EmptyBottom == <<BoxBL, BoxH, BoxH, BoxH, BoxBR>>

\* C21: a message whose text is empty renders as a bubble with zero content
\* lines: bubbleLines returns exactly three lines (top border, bottom border,
\* timestamp) with content width 1, so a returned width of 5, and render
\* does not fail on it: it pushes the three lines, padded by a count that is
\* not negative, and "".
C21_EmptyBubble ==
  (RenderReturned /\ \E k \in 1..Len(messages) : messages[k].text = <<>>) =>
    /\ fpc = "done"
    /\ Len(outCalls) >= Len(messages)
    /\ \A k \in 1..Len(messages) :
         messages[k].text = <<>> =>
           LET c == outCalls[k]
               lead == Repeat(" ", c.pad) \o StyleOpen(c.sender)
           IN /\ c.text = <<>> /\ c.sender = messages[k].sender
              /\ wrapText(c.text, c.inner) = <<>>
              /\ c.width = 1 + 2 * innerPadX + 2
              /\ c.pad >= 0
              /\ \A n \in c.repeats : n >= 0
              /\ Len(c.out) = 4
              /\ c.out[1] = lead \o EmptyTop \o StyleClose
              /\ c.out[2] = lead \o EmptyBottom \o StyleClose
              /\ SubSeq(c.out[3], 1, c.pad + 2) = Repeat(" ", c.pad) \o <<" ", "{">>
              /\ c.out[4] = <<>>

\* an empty "me" message rendered in a viewport narrower than its bubble,
\* after a message that has content lines
C21_Witness ==
  /\ RenderReturned /\ fpc = "done"
  /\ inNum < 5
  /\ Len(messages) = 2
  /\ messages[1].text = LongText
  /\ messages[2].text = <<>> /\ messages[2].sender = "me"
  /\ Len(outCalls[1].out) > 4
  /\ Len(outCalls[2].out) = 4 /\ outCalls[2].pad = 0

----------------------------------------------------------------------------
(* SpecGated: the classifier-gated chat client. A handler saves the user's *)
(* line, asks classifyUtterance whether to reply, and only then calls the  *)
(* model; it shows the reply line by line, each after a typing pause.      *)

\* labels indexToLabel can return: two of REPLY_TAGS (the first also one of
\* QUESTION_TAGS), a label in neither set, and "Unknown"
Tags == {"Wh-Question", "Thanking", "Statement-non-opinion", "Unknown"}

REPLY_TAGS ==
  {"Yes-No-Question", "Wh-Question", "Open-Question",
   "Declarative Yes-No-Question", "Declarative Wh-Question",
   "Backchannel in Question Form", "Tag-Question", "Rhetorical-Question",
   "Or-Clause", "Signal-non-understanding", "Action-directive",
   "Conventional-opening", "Conventional-closing", "Thanking", "Apology",
   "Offers, Options Commits"}

\* what classifyUtterance returns for a label
DialogAct(tag) == [tag |-> tag, shouldReply |-> tag \in REPLY_TAGS]

\* if (!act.shouldReply) { ...; return; }
RepliesAlways(act) == TRUE
Replies(act) == act.shouldReply

Ellipsis == <<".", ".", ".">>

\* msg.content of a model reply to the gated client
GatedContents ==
  {Null, Ellipsis, <<"o", "k">>, <<"a", "\n", " ", "\n", "b", " ">>,
   <<"c", "\n", "d">>}

\* the lines from the first one the loop does not skip:
\* if (line.trim() === "") continue
RECURSIVE SkipBlank(_)
SkipBlank(ls) ==
  IF ls # <<>> /\ Trim(Head(ls)) = <<>> THEN SkipBlank(Tail(ls)) ELSE ls

Did(h, what) == [hDid EXCEPT ![h] = hDid[h] \cup what]

\* for (const line of reply.split("\n")), from the lines left, up to the next
\* await: setTyping(true); await thinkSleep(line), or after the last line
\* setTyping(false); history.push(assistant); await addHistory(...)
ShowFrom(h, st, ls, reply, did) ==
  LET rest == SkipBlank(ls)
  IN IF rest # <<>>
     THEN /\ Becomes(setTyping(st, TRUE))
          /\ hLines' = [hLines EXCEPT ![h] = rest]
          /\ hpc' = [hpc EXCEPT ![h] = "thinkSleep"]
          /\ hDid' = Did(h, did \cup {"setTyping(true)"})
          /\ UNCHANGED history
     ELSE /\ Becomes(setTyping(st, FALSE))
          /\ hLines' = [hLines EXCEPT ![h] = <<>>]
          /\ history' = Append(history, [role |-> "assistant", content |-> reply])
          /\ hpc' = [hpc EXCEPT ![h] = "addHistoryAssistant"]
          /\ hDid' = Did(h, did \cup {"setTyping(false)"})

\* await addHistory("user", text) resolves: classifyUtterance(text) is called
GatedUserSaved(h) ==
  /\ running /\ hpc[h] = "addHistoryUser"
  /\ Becomes(At(clock))
  /\ hpc' = [hpc EXCEPT ![h] = "classifyUtterance"]
  /\ lastOp' = <<>>
  /\ event' = [kind |-> "resolved"]
  /\ UNCHANGED <<running, submitted, hReply, history, passed, hError, gatedVars,
                 fnVars, stepVars, agentVars>>

\* await classifyUtterance(text) resolves: a declined line gets the
\* placeholder in the history and the handler returns; otherwise
\* groqChat(history) is called
Classified(h, tag) ==
  /\ running /\ hpc[h] = "classifyUtterance"
  /\ Becomes(At(clock))
  /\ hAct' = [hAct EXCEPT ![h] = DialogAct(tag)]
  /\ IF Replies(DialogAct(tag))
     THEN /\ hpc' = [hpc EXCEPT ![h] = "groqChat"]
          /\ hDid' = Did(h, {"groqChat"})
          /\ UNCHANGED history
     ELSE /\ history' = Append(history, [role |-> "assistant", content |-> Ellipsis])
          /\ hpc' = [hpc EXCEPT ![h] = "done"]
          /\ UNCHANGED hDid
  /\ lastOp' = <<>>
  /\ event' = [kind |-> "resolved"]
  /\ UNCHANGED <<running, submitted, hReply, passed, hError, client, hLines,
                 fnVars, stepVars, agentVars>>

\* await classifyUtterance(text) rejects, outside the try
ClassifyFailed(h, e) ==
  /\ running /\ hpc[h] = "classifyUtterance"
  /\ Becomes(At(clock))
  /\ hpc' = [hpc EXCEPT ![h] = "rejected"]
  /\ hError' = [hError EXCEPT ![h] = ErrorText(e)]
  /\ lastOp' = <<>>
  /\ event' = [kind |-> "rejected"]
  /\ UNCHANGED <<running, submitted, hReply, history, passed, gatedVars, fnVars, stepVars, agentVars>>

\* await groqChat(history) resolves: reply = (msg.content ?? "").trim();
\* if (!reply || reply === "...") return; otherwise the loop starts
GatedChatReplied(h, c, now) ==
  LET reply == Trim(IF c = Null THEN <<>> ELSE c)
  IN /\ running /\ hpc[h] = "groqChat"
     /\ hReply' = [hReply EXCEPT ![h] = reply]
     /\ IF reply = <<>> \/ reply = Ellipsis
        THEN /\ Becomes(At(clock))
             /\ hpc' = [hpc EXCEPT ![h] = "done"]
             /\ lastOp' = <<>>
             /\ UNCHANGED <<history, hLines, hDid>>
        ELSE /\ ShowFrom(h, At(now), SplitParas(reply), reply, {})
             /\ lastOp' = <<OpTyping(TRUE)>>
     /\ event' = [kind |-> "resolved"]
     /\ UNCHANGED <<running, submitted, passed, hError, client, hAct, fnVars,
                    stepVars, agentVars>>

\* await groqChat(history) rejects:
\* catch (e) { addMessage("system", e?.message ?? "error"); return; }
GatedChatFailed(h, e, now) ==
  /\ running /\ hpc[h] = "groqChat"
  /\ Becomes(addMessage(At(now), "system", ErrorText(e)))
  /\ hpc' = [hpc EXCEPT ![h] = "done"]
  /\ hError' = [hError EXCEPT ![h] = ErrorText(e)]
  /\ hDid' = Did(h, {"addMessage(system)"})
  /\ lastOp' = <<OpAdd("system")>>
  /\ event' = [kind |-> "rejected"]
  /\ UNCHANGED <<running, submitted, hReply, history, passed, client, hLines, hAct,
                 fnVars, stepVars, agentVars>>

\* await thinkSleep(line) resolves: addMessage("them", line), and the loop
\* goes on
Slept(h, now) ==
  /\ running /\ hpc[h] = "thinkSleep"
  /\ ShowFrom(h, addMessage(At(now), "them", Head(hLines[h])), Tail(hLines[h]),
              hReply[h], {"addMessage(them)"})
  /\ lastOp' = <<OpAdd("them"), OpTyping(SkipBlank(Tail(hLines[h])) # <<>>)>>
  /\ event' = [kind |-> "resolved"]
  /\ UNCHANGED <<running, submitted, hReply, passed, hError, client, hAct,
                 fnVars, stepVars, agentVars>>

\* await addHistory("assistant", reply) settles, outside the try: the handler
\* returns, or its promise rejects
GatedReplySaved(h) ==
  /\ running /\ hpc[h] = "addHistoryAssistant"
  /\ Becomes(At(clock))
  /\ hpc' = [hpc EXCEPT ![h] = "done"]
  /\ lastOp' = <<>>
  /\ event' = [kind |-> "resolved"]
  /\ UNCHANGED <<running, submitted, hReply, history, passed, hError, gatedVars,
                 fnVars, stepVars, agentVars>>

GatedReplySaveFailed(h, e) ==
  /\ running /\ hpc[h] = "addHistoryAssistant"
  /\ Becomes(At(clock))
  /\ hpc' = [hpc EXCEPT ![h] = "rejected"]
  /\ hError' = [hError EXCEPT ![h] = ErrorText(e)]
  /\ lastOp' = <<>>
  /\ event' = [kind |-> "rejected"]
  /\ UNCHANGED <<running, submitted, hReply, history, passed, gatedVars, fnVars, stepVars, agentVars>>

NextGated ==
  \/ \E value \in Lines, now \in Nows : Submit(value, now)
  \/ \E h \in Handlers, e \in ErrorMessages : UserSaveFailed(h, e)
  \/ \E h \in Handlers : GatedUserSaved(h)
  \/ \E h \in Handlers, tag \in Tags : Classified(h, tag)
  \/ \E h \in Handlers, e \in ErrorMessages : ClassifyFailed(h, e)
  \/ \E h \in Handlers, c \in GatedContents, now \in Nows : GatedChatReplied(h, c, now)
  \/ \E h \in Handlers, e \in ErrorMessages, now \in Nows : GatedChatFailed(h, e, now)
  \/ \E h \in Handlers, now \in Nows : Slept(h, now)
  \/ \E h \in Handlers : GatedReplySaved(h)
  \/ \E h \in Handlers, e \in ErrorMessages : GatedReplySaveFailed(h, e)
  \/ \E t \in timers, now \in Nows : Tick(t, now)

InitGated == SessInit /\ FnIdle /\ StepIdle /\ client = "gated" /\ AgentOff

SpecGated == InitGated /\ [][NextGated]_vars

\* what a handler does to answer: the model call, the indicator, a reply line
Answering == {"groqChat", "setTyping(true)", "setTyping(false)", "addMessage(them)"}

\* C20: in the classifier-gated client a handler calls the model only if
\* classifyUtterance returned shouldReply = true; when it returned false the
\* handler makes no model call, shows no typing indicator and appends no
\* "them" message.
C20_GateBeforeModel ==
  /\ [](\A h \in Handlers :
          /\ hDid[h] \cap Answering # {} => (hAct[h] # NoAct /\ hAct[h].shouldReply)
          /\ (hAct[h] # NoAct /\ ~hAct[h].shouldReply) =>
               /\ hDid[h] = {}
               /\ hpc[h] = "done")
  /\ [][\A h \in Handlers :
          (hAct[h] = NoAct /\ hAct'[h] # NoAct /\ ~hAct'[h].shouldReply) =>
            /\ messages' = messages
            /\ typing' = typing /\ timers' = timers
            /\ hpc'[h] = "done"]_vars

\* of two lines, one was declined (its handler made no call) and the other
\* was answered with a model call, the indicator and a "them" message
C20_Witness ==
  /\ hAct[1] = DialogAct("Statement-non-opinion")
  /\ hDid[1] = {} /\ hpc[1] = "done"
  /\ hAct[2].shouldReply
  /\ {"groqChat", "setTyping(true)", "addMessage(them)"} \subseteq hDid[2]
  /\ hpc[2] = "done"
  /\ Len(messages) = 3


----------------------------------------------------------------------------
(* Overlapping handlers of the plain client, checked under Spec *)

\* a handler that has called setTyping(true) and whose groqChat call has not
\* settled yet
AwaitingModel(h) == hpc[h] = "groqChat"

\* C22: in the client that shows the indicator while awaiting the model,
\* state.typing is true whenever at least one handler has called
\* setTyping(true) and has not yet received its reply or error, also when a
\* second line is submitted before the first reply has arrived.
C22_TypingWhileAwaiting ==
  (\E h \in Handlers : AwaitingModel(h)) => typing


----------------------------------------------------------------------------
(* SpecSettling: either client, with every awaited call of a handler       *)
(* settling eventually: the promise resolves or rejects, and the handler   *)
(* runs on to its next await or to its end.                                *)

Clients == {"plain", "gated"}

\* what is submitted, and how the awaited calls settle: one value for each
\* way a handler can take
SettlingLines == {<<"h", "i">>, Quit}
SettlingContents == {<<" ", "o", "k">>}
SettlingErrors == {<<"b", "a", "d">>}
SettlingTags == {"Wh-Question", "Statement-non-opinion"}
SettlingReplies == {Ellipsis, <<"a", "\n", " ", "\n", "b", " ">>}

InitSettling == SessInit /\ FnIdle /\ StepIdle /\ client \in Clients /\ AgentOff

NextSettling ==
  \/ \E value \in SettlingLines : Submit(value, clock)
  \/ \E h \in Handlers, e \in SettlingErrors : UserSaveFailed(h, e)
  \/ \E t \in timers : Tick(t, clock)
  \/ \E h \in Handlers : client = "plain" /\ UserSaved(h, clock)
  \/ \E h \in Handlers, c \in SettlingContents : client = "plain" /\ ChatReplied(h, c)
  \/ \E h \in Handlers, e \in SettlingErrors : client = "plain" /\ Caught(h, e, clock)
  \/ \E h \in Handlers : client = "plain" /\ ReplySaved(h, clock)
  \/ \E h \in Handlers : client = "gated" /\ GatedUserSaved(h)
  \/ \E h \in Handlers, tag \in SettlingTags : client = "gated" /\ Classified(h, tag)
  \/ \E h \in Handlers, e \in SettlingErrors : client = "gated" /\ ClassifyFailed(h, e)
  \/ \E h \in Handlers, c \in SettlingReplies :
       client = "gated" /\ GatedChatReplied(h, c, clock)
  \/ \E h \in Handlers, e \in SettlingErrors :
       client = "gated" /\ GatedChatFailed(h, e, clock)
  \/ \E h \in Handlers : client = "gated" /\ Slept(h, clock)
  \/ \E h \in Handlers : client = "gated" /\ GatedReplySaved(h)
  \/ \E h \in Handlers, e \in SettlingErrors :
       client = "gated" /\ GatedReplySaveFailed(h, e)

\* the call handler h awaits settles, either way
Settles(h) ==
  \/ \E e \in SettlingErrors : UserSaveFailed(h, e)
  \/ /\ client = "plain"
     /\ \/ UserSaved(h, clock)
        \/ \E c \in SettlingContents : ChatReplied(h, c)
        \/ \E e \in SettlingErrors : Caught(h, e, clock)
        \/ ReplySaved(h, clock)
  \/ /\ client = "gated"
     /\ \/ GatedUserSaved(h)
        \/ \E tag \in SettlingTags : Classified(h, tag)
        \/ \E e \in SettlingErrors : ClassifyFailed(h, e)
        \/ \E c \in SettlingReplies : GatedChatReplied(h, c, clock)
        \/ \E e \in SettlingErrors : GatedChatFailed(h, e, clock)
        \/ Slept(h, clock)
        \/ GatedReplySaved(h)
        \/ \E e \in SettlingErrors : GatedReplySaveFailed(h, e)

\* handler h is suspended at an await
Awaiting(h) ==
  /\ running
  /\ hpc[h] \in {"addHistoryUser", "groqChat", "addHistoryAssistant",
                "classifyUtterance", "thinkSleep"}

\* a settling step of handler h can be taken exactly while h is suspended
\* at an await (an invariant of SpecSettling)
SettlesEnabled ==
  \A h \in Handlers : Awaiting(h) <=> ENABLED <<Settles(h)>>_vars

\* weak fairness of Settles(h) for every handler, written out with Awaiting(h)
\* for ENABLED <<Settles(h)>>_vars: a handler is not left suspended at an
\* await for ever
SettlesFairly(h) ==
  \/ []<>(~Awaiting(h))
  \/ []<><<Settles(h)>>_vars

SpecSettling ==
  InitSettling /\ [][NextSettling]_vars /\ \A h \in Handlers : SettlesFairly(h)

\* handler h has called setTyping(true) and not setTyping(false) after it
HoldsTyping(h) ==
  IF client = "plain"
  THEN hpc[h] \in {"groqChat", "addHistoryAssistant"}
  ELSE hpc[h] = "thinkSleep"

\* handler h has called setTyping(false) last
ReleasedTyping(h) ==
  IF client = "plain"
  THEN hpc[h] = "done"
  ELSE "setTyping(false)" \in hDid[h] /\ hpc[h] # "thinkSleep"

\* every handler that was invoked has returned or rejected
AllFinished ==
  /\ submitted > 0
  /\ \A h \in Handlers : hpc[h] \in {"none", "done", "rejected"}

\* C23: if every awaited call settles, a handler that called setTyping(true)
\* calls setTyping(false) later, on its success and on its failure path
\* (unless /quit ends the process first), and once all handlers, overlapping
\* or not, have finished, state.typing is false, no timer is live and
\* typingFrame is 0.
C23_TypingReleased ==
  /\ \A h \in Handlers : HoldsTyping(h) ~> (ReleasedTyping(h) \/ ~running)
  /\ [](AllFinished =>
          /\ ~typing
          /\ timers = {} /\ typingAnim = NoTimer
          /\ typingFrame = 0)

\* two overlapping handlers of the plain client, the first ended by a
\* rejection and the second by its reply, both finished
C23_Witness ==
  /\ client = "plain"
  /\ hpc = [h \in Handlers |-> "done"]
  /\ hError[1] # NoError /\ hError[2] = NoError
  /\ Len(messages) = 4
  /\ messages[1].sender = "me" /\ messages[2].sender = "me"
  /\ messages[3].sender = "system" /\ messages[4].sender = "them"
  /\ ~typing /\ timers = {} /\ typingFrame = 0


----------------------------------------------------------------------------
(* SpecAgent: the terminal agent. prompt() reads a line, pushes it to the  *)
(* history and awaits agentTurn(history), which calls the model and runs   *)
(* the tools the model asks for, at most six rounds.                       *)

\* lines answered in one run
MaxTurns == 2

Variants == {"tools", "confidence"}

\* what the user types at the prompt
AgentLines == {<<" ", "h", "i">>, <<" ">>, <<"/", "e", "x", "i", "t">>}

\* tc.function.arguments, and what JSON.parse makes of it: null when it does
\* not parse, otherwise an object, kept as the field runTool reads from it
\* ("" for args?.query ?? "")
ArgsBad == "{"
ArgsEmpty == "{}"
ArgsQuery == "{\"query\":\"q\"}"

safeJsonParse(a) ==
  IF a = ArgsBad THEN [null |-> TRUE, query |-> ""]
  ELSE [null |-> FALSE, query |-> IF a = ArgsQuery THEN "q" ELSE ""]

\* {}
EmptyObject == [null |-> FALSE, query |-> ""]

\* msg.tool_calls of a response, without the ids: one tool that answers at
\* once, or an unknown tool with unparsable arguments and then a tool that
\* awaits the database
OneTool == <<[name |-> "get_time", arguments |-> ArgsEmpty]>>
TwoTools ==
  <<[name |-> "nope", arguments |-> ArgsBad],
    [name |-> "search_history", arguments |-> ArgsQuery]>>

\* the responses of the tool loop: content, null or not, with and without
\* tool calls
LoopResponses ==
  {[content |-> Null, tool_calls |-> <<>>],
   [content |-> <<" ", "o", "k">>, tool_calls |-> <<>>],
   [content |-> Null, tool_calls |-> OneTool],
   [content |-> <<" ", "o", "k">>, tool_calls |-> TwoTools]}

\* msg.content of a response, and the confidence its last line states
\* (NoConfidence: no "confidence: N%" line)
AgentContents == {Null, <<" ", "o", "k">>}
NoConfidence == 0 - 1
Confidences == {NoConfidence, 49, 50}

\* how an awaited database call settles: with no rows, or rejected
DbOutcomes == {"none", "rejects"}

LimitText == <<"Tool loop limit reached.">>
Rejected == <<"rejected">>

\* an entry of the history
Entry(role, content, tool_calls, tool_call_id) ==
  [role |-> role, content |-> content, tool_calls |-> tool_calls,
   tool_call_id |-> tool_call_id]

NoCallId == 0

Nudge == <<"You now have tools available. Use them to provide a precise answer.">>

\* parseConfidence(text): match ? parseInt(match[1], 10) : 100
parseConfidence(stated) == IF stated = NoConfidence THEN 100 ELSE stated

\* runTool(name, args) up to its first await of the database: a value, or
\* the await
runTool(name, args) ==
  IF name = "get_time" THEN [await |-> FALSE, out |-> <<"nowISO">>]
  ELSE IF name = "search_history"
       THEN IF args.query # ""
            THEN [await |-> TRUE, out |-> <<>>]
            ELSE [await |-> FALSE, out |-> <<"Error: query required.">>]
       ELSE [await |-> FALSE, out |-> <<"Error: unknown tool '", name, "'.">>]

\* const rows = await searchHistory(query);
\* if (!rows.length) return "No results."; return JSON.stringify(rows)
AfterSearch(outcome) == IF outcome = "none" THEN <<"No results.">> ELSE <<"rows">>

\* msg.tool_calls with the ids the model gave them
WithIds(req, first) ==
  [k \in 1..Len(req) |->
     [id |-> first + k - 1, name |-> req[k].name, arguments |-> req[k].arguments]]

\* for (let i = 0; i < 6; i++)
LoopGoesOnInclusive(i) == i <= 6
LoopGoesOn(i) == i < 6

\* const msg = await groqChat(history, ...) is issued
IssueChat(h, i) ==
  /\ apc' = "groqChat"
  /\ loopI' = i
  /\ modelCalls' = modelCalls + 1
  /\ sent' = h
  /\ returned' = NotReturned

\* agentTurn returns out: await addHistory("assistant", out) is issued
Return(out) ==
  /\ apc' = "addHistoryAssistant"
  /\ returned' = out
  /\ UNCHANGED <<modelCalls, sent>>

\* the head of the for loop: the next round, or the return after the loop
NextRound(h, i) ==
  IF LoopGoesOn(i)
  THEN IssueChat(h, i)
  ELSE loopI' = i /\ Return(LimitText)

AgentStart ==
  /\ variant \in Variants
  /\ apc = "prompt"
  /\ agentHistory = <<Entry("system", <<"system">>, <<>>, NoCallId)>>
  /\ loopI = 0
  /\ pendingCalls = <<>>
  /\ nextCall = 1
  /\ turns = 0
  /\ modelCalls = 0
  /\ responses = <<>>
  /\ returned = NotReturned
  /\ sent = <<>>

\* rl.question callback: an empty line prompts again, /exit closes, any
\* other line is pushed and saved: await addHistory("user", q)
Ask(line) ==
  LET q == Trim(line)
  IN /\ apc = "prompt" /\ turns < MaxTurns
     /\ IF q = <<>>
        THEN UNCHANGED <<apc, agentHistory, turns>>
        ELSE IF q = <<"/", "e", "x", "i", "t">>
        THEN apc' = "closed" /\ UNCHANGED <<agentHistory, turns>>
        ELSE /\ agentHistory' = Append(agentHistory, Entry("user", q, <<>>, NoCallId))
             /\ turns' = turns + 1
             /\ apc' = "addHistoryUser"
     /\ UNCHANGED <<variant, loopI, pendingCalls, nextCall, modelCalls, responses,
                    returned, sent, sessVars, fnVars, stepVars>>

\* await addHistory("user", q) resolves: agentTurn(history) is called and
\* issues its first model call
AskSaved ==
  /\ apc = "addHistoryUser"
  /\ apc' = (IF variant = "confidence" THEN "firstChat" ELSE "groqChat")
  /\ modelCalls' = 1
  /\ responses' = <<>>
  /\ returned' = NotReturned
  /\ loopI' = 0
  /\ sent' = agentHistory
  /\ UNCHANGED <<variant, agentHistory, pendingCalls, nextCall, turns,
                 sessVars, fnVars, stepVars>>

\* await addHistory("user", q) rejects, outside the try: prompt() is not
\* called again
AskSaveFailed ==
  /\ apc = "addHistoryUser"
  /\ apc' = "dead"
  /\ UNCHANGED <<variant, agentHistory, loopI, pendingCalls, nextCall, turns,
                 modelCalls, responses, returned, sent, sessVars, fnVars, stepVars>>

\* the tool-free first call resolves: confidence >= 50 returns firstText,
\* otherwise firstText and the nudge are pushed and the tool loop starts
FirstReplied(c, stated) ==
  LET firstText == Trim(IF c = Null THEN <<>> ELSE c)
      shipped == Append(agentHistory, Entry("assistant", firstText, <<>>, NoCallId))
      nudged == Append(shipped, Entry("user", Nudge, <<>>, NoCallId))
  IN /\ apc = "firstChat"
     /\ IF parseConfidence(stated) >= 50
        THEN /\ agentHistory' = shipped
             /\ Return(firstText)
             /\ UNCHANGED loopI
        ELSE /\ agentHistory' = nudged
             /\ NextRound(nudged, 0)
     /\ UNCHANGED <<variant, pendingCalls, nextCall, turns, responses,
                    sessVars, fnVars, stepVars>>

\* a model call rejects: agentTurn rejects, prompt() catches and prompts again
ChatFailed ==
  /\ apc \in {"firstChat", "groqChat"}
  /\ apc' = "prompt"
  /\ returned' = Rejected
  /\ UNCHANGED <<variant, agentHistory, loopI, pendingCalls, nextCall, turns,
                 modelCalls, responses, sent, sessVars, fnVars, stepVars>>

\* a call of the tool loop resolves: with tool calls the assistant entry is
\* pushed and the first tool is run; without, the text is pushed and returned
LoopReplied(c, req) ==
  LET content == IF c = Null THEN <<>> ELSE c
      tcs == WithIds(req, nextCall)
  IN /\ apc = "groqChat"
     /\ responses' = Append(responses, [tool_calls |-> tcs, text |-> Trim(content)])
     /\ nextCall' = nextCall + Len(req)
     /\ IF tcs # <<>>
        THEN /\ agentHistory' = Append(agentHistory, Entry("assistant", content, tcs, NoCallId))
             /\ pendingCalls' = tcs
             /\ apc' = "runTool"
             /\ UNCHANGED <<loopI, modelCalls, returned, sent>>
        ELSE /\ agentHistory' = Append(agentHistory,
                                       Entry("assistant", Trim(content), <<>>, NoCallId))
             /\ Return(Trim(content))
             /\ UNCHANGED <<loopI, pendingCalls>>
     /\ UNCHANGED <<variant, turns, sessVars, fnVars, stepVars>>

\* const out = await runTool(tc.function.name, args) settles for the next
\* tool call: its entry is pushed, and after the last one comes the next round;
\* a rejection rejects agentTurn
ToolSettled(outcome) ==
  LET tc == Head(pendingCalls)
      parsed == safeJsonParse(tc.arguments)
      args == IF parsed.null THEN EmptyObject ELSE parsed
      r == runTool(tc.name, args)
      out == IF r.await THEN AfterSearch(outcome) ELSE r.out
      pushed == Append(agentHistory, Entry("tool", out, <<>>, tc.id))
  IN /\ apc = "runTool"
     /\ IF r.await /\ outcome = "rejects"
        THEN /\ apc' = "prompt"
             /\ returned' = Rejected
             /\ pendingCalls' = <<>>
             /\ UNCHANGED <<agentHistory, loopI, modelCalls, sent>>
        ELSE /\ agentHistory' = pushed
             /\ pendingCalls' = Tail(pendingCalls)
             /\ IF Tail(pendingCalls) = <<>>
                THEN NextRound(pushed, loopI + 1)
                ELSE UNCHANGED <<apc, loopI, modelCalls, returned, sent>>
     /\ UNCHANGED <<variant, nextCall, turns, responses, sessVars, fnVars, stepVars>>

\* await addHistory("assistant", out) settles: console.log(out), or the
\* catch's console.error; then prompt()
AnswerSettled ==
  /\ apc = "addHistoryAssistant"
  /\ apc' = "prompt"
  /\ UNCHANGED <<variant, agentHistory, loopI, pendingCalls, nextCall, turns,
                 modelCalls, responses, returned, sent, sessVars, fnVars, stepVars>>

InitAgent == SessInit /\ FnIdle /\ StepIdle /\ client = "plain" /\ AgentStart

NextAgent ==
  \/ \E line \in AgentLines : Ask(line)
  \/ AskSaved
  \/ AskSaveFailed
  \/ \E c \in AgentContents, stated \in Confidences : FirstReplied(c, stated)
  \/ ChatFailed
  \/ \E r \in LoopResponses : LoopReplied(r.content, r.tool_calls)
  \/ \E outcome \in DbOutcomes : ToolSettled(outcome)
  \/ AnswerSettled

SpecAgent == InitAgent /\ [][NextAgent]_vars

\* agentTurn is running, suspended at an await
InTurn == apc \in {"firstChat", "groqChat", "runTool"}

\* agentTurn has returned or rejected, and no later line was pushed yet
TurnEnded ==
  returned # NotReturned /\ apc \in {"addHistoryAssistant", "prompt", "closed"}

\* the tool-free first call of the confidence-gated variant
FirstCalls == IF variant = "confidence" THEN 1 ELSE 0

\* the responses of the tool loop that carry tool calls
WithTools == {k \in 1..Len(responses) : responses[k].tool_calls # <<>>}

\* what a completed agentTurn returns: in the confidence-gated variant the
\* first text when no tool loop was entered; otherwise the limit text exactly
\* when all six responses of the loop carried tool calls, and else the text of
\* the first loop response without tool calls, which is the last one
ReturnsAsClaimed ==
  \/ /\ variant = "confidence" /\ modelCalls = 1 /\ responses = <<>>
     /\ agentHistory[Len(agentHistory)].content = returned
  \/ /\ modelCalls = Len(responses) + FirstCalls
     /\ returned = LimitText <=> (Len(responses) = 6 /\ WithTools = 1..6)
     /\ returned # LimitText =>
          /\ responses # <<>>
          /\ WithTools = 1..(Len(responses) - 1)
          /\ returned = responses[Len(responses)].text

\* the most tool calls one response carries
MaxToolCalls == Len(TwoTools)

\* how far agentTurn is from its end: rounds left, each a model call and the
\* tool calls it asks for
Rank ==
  IF apc = "firstChat" THEN 6 * (MaxToolCalls + 1) + 1
  ELSE IF apc = "groqChat" THEN (6 - loopI) * (MaxToolCalls + 1)
  ELSE IF apc = "runTool" THEN (5 - loopI) * (MaxToolCalls + 1) + Len(pendingCalls)
  ELSE 0

\* C24 as stated: every agentTurn ends by returning, after at most 6 model
\* calls of the tool loop (and one tool-free first call in the
\* confidence-gated variant): "Tool loop limit reached." exactly when all 6
\* loop responses contained tool calls, otherwise the first response without
\* tool calls.
C24_AlwaysReturns ==
  TurnEnded =>
    /\ modelCalls <= 6 + FirstCalls
    /\ ReturnsAsClaimed

\* C24, amended: agentTurn always ends, with at most 6 model calls of the
\* tool loop plus the tool-free first call of the confidence-gated variant:
\* every step of it comes nearer to its end and none is stuck. It rejects
\* when a model call or a tool rejects. When it returns, it returns the first
\* text of the confidence-gated variant if that states a confidence of 50 or
\* more (or none), "Tool loop limit reached." exactly when all 6 loop
\* responses contained tool calls, and otherwise the trimmed text of the first
\* loop response without tool calls.
C24_BoundedTurn ==
  /\ [](/\ modelCalls <= 6 + FirstCalls
        /\ Len(responses) <= 6 /\ Len(responses) <= modelCalls
        /\ InTurn => (Rank > 0 /\ ENABLED NextAgent)
        /\ (TurnEnded /\ returned # Rejected) => ReturnsAsClaimed)
  /\ [][InTurn => Rank' < Rank]_vars

\* a turn of the confidence-gated variant that ran into the limit: seven
\* model calls, six of them with tool calls, one of them with two
C24_Witness ==
  /\ variant = "confidence"
  /\ apc = "addHistoryAssistant"
  /\ returned = LimitText
  /\ modelCalls = 7
  /\ Len(responses) = 6
  /\ \E k \in 1..6 : Len(responses[k].tool_calls) = 2

\* in history h the assistant entry at k is followed by one tool entry per
\* tool call, in order and with the matching tool_call_id, and by no further
\* tool entry
Answered(h, k) ==
  LET tcs == h[k].tool_calls
  IN /\ k + Len(tcs) <= Len(h)
     /\ \A j \in 1..Len(tcs) :
          h[k + j].role = "tool" /\ h[k + j].tool_call_id = tcs[j].id
     /\ k + Len(tcs) < Len(h) => h[k + Len(tcs) + 1].role # "tool"

\* C25: every assistant entry of the agent's history that carries tool_calls
\* is immediately followed by exactly one tool entry per tool call, in the same
\* order and with the matching tool_call_id, and all of them are appended
\* before the next model call is issued: every history handed to the model is
\* of this form.
C25_ToolEntriesFollow ==
  apc \in {"firstChat", "groqChat"} =>
    /\ sent = agentHistory
    /\ \A k \in 1..Len(sent) :
         (sent[k].role = "assistant" /\ sent[k].tool_calls # <<>>) => Answered(sent, k)


----------------------------------------------------------------------------
(* The model history and the reply lines of the gated client, checked      *)
(* under SpecGated                                                         *)

\* the entries of the model history with a role
WithRole(role) == {k \in 1..Len(history) : history[k].role = role}

\* every handler that was invoked has returned
AllReturned == \A h \in Handlers : hpc[h] \in {"none", "done"}

\* C26: in the classifier-gated client every handler invocation that
\* completes has appended exactly one assistant entry to the model history for
\* its user entry (the placeholder "..." when the classifier declines,
\* otherwise the reply), so that with non-overlapping handlers the history
\* after the system prompt strictly alternates user and assistant roles.
C26_OneAssistantPerUser ==
  AllReturned =>
    /\ Cardinality(WithRole("assistant")) = Cardinality(WithRole("user"))
    /\ hpc[2] = "none" =>
         \A k \in 2..Len(history) :
           history[k].role = (IF k % 2 = 0 THEN "user" ELSE "assistant")
    /\ (hpc[1] = "done" /\ hpc[2] = "none") =>
         /\ Len(history) = 3
         /\ history[3].content = (IF hAct[1].shouldReply THEN hReply[1] ELSE Ellipsis)

\* the lines of handler h's reply that the loop shows
RECURSIVE NonBlank(_)
NonBlank(ls) ==
  IF ls = <<>> THEN <<>>
  ELSE IF Trim(Head(ls)) = <<>> THEN NonBlank(Tail(ls))
       ELSE <<Head(ls)>> \o NonBlank(Tail(ls))

ReplyLines(h) ==
  IF hpc[h] \in {"thinkSleep", "addHistoryAssistant", "done", "rejected"}
     /\ "setTyping(true)" \in hDid[h]
  THEN NonBlank(SplitParas(hReply[h]))
  ELSE <<>>

\* the texts of the "them" messages, in the order of state.messages
RECURSIVE ThemTexts(_)
ThemTexts(ms) ==
  IF ms = <<>> THEN <<>>
  ELSE IF Head(ms).sender = "them" THEN <<Head(ms).text>> \o ThemTexts(Tail(ms))
       ELSE ThemTexts(Tail(ms))

\* the handlers' replies have no line in common, so that a "them" message
\* tells whose it is
Telling ==
  \A g, h \in Handlers :
    g # h => \A i \in 1..Len(ReplyLines(g)), j \in 1..Len(ReplyLines(h)) :
               ReplyLines(g)[i] # ReplyLines(h)[j]

\* the positions in ts of the lines of handler h's reply
Shown(ts, h) ==
  {k \in 1..Len(ts) : \E i \in 1..Len(ReplyLines(h)) : ts[k] = ReplyLines(h)[i]}

\* C27: in the classifier-gated client the non-blank lines of one reply are
\* appended as separate "them" messages in the reply's line order, each after
\* its own typing pause, and no "them" line of a different reply is appended
\* between two lines of the same reply, also when two handlers overlap.
C27_ReplyLinesTogether ==
  Telling =>
    LET ts == ThemTexts(messages)
    IN \A h \in Handlers :
         LET at == Shown(ts, h)
             first == CHOOSE k \in at : \A m \in at : k <= m
             sofar == Len(ReplyLines(h)) - Len(NonBlank(hLines[h]))
         IN at # {} =>
              /\ at = first..(first + Cardinality(at) - 1)
              /\ \A k \in at : ts[k] = ReplyLines(h)[k - first + 1]
              /\ hpc[h] = "thinkSleep" => Cardinality(at) = sofar

====
